---- MODULE Spec2Model ----
(***************************************************************************)
(* Model of the device firmware of project_SABA (Device SDK, RTOS build,   *)
(* SDK/esp32_c3_mini/src/apps/YOUR_PROJECT_NAME/main.cpp) and of the       *)
(* capability registry (SDK/lib/mcp-sdk/src/registry.cpp).                 *)
(*                                                                         *)
(* Two execution contexts share the PubSubClient handle `mqtt`:            *)
(*   "loop"   - the Arduino control loop (loop(), the HTTP handlers it     *)
(*              drives, and the receive callback run inside mqtt.loop());  *)
(*   "worker" - ToolWorkerTask.                                            *)
(* Each context runs a list of pending calls (prog) through the helpers    *)
(* mqttPublishSafe / mqttLoopSafe / mqttConnect, one source statement per  *)
(* step, so that every interleaving of the two contexts is explored.       *)
(*                                                                         *)
(* Abstractions (all over-approximations):                                 *)
(*   - millis() interval tests (status/announce/reconnect due) and         *)
(*     WiFi.status() are nondeterministic choices, except in SpecTime,     *)
(*     which follows millis() and the timestamps themselves;               *)
(*   - a publish puts two chunks on the wire ("head" then "tail");         *)
(*   - payload bytes are abstracted to their length and parsed content.    *)
(*                                                                         *)
(* Parts followed on their own, each in a specification of its own: the    *)
(* Output Ports and the announce documents (SpecOut), the worker's asset   *)
(* URL patch (SpecPatch), the request ids dispatch generates (SpecRid),    *)
(* and the event tool digital_event of the single-task build               *)
(* SDK/src/apps/YOUR_PROJECT_NAME/main.cpp (SpecEvent).                    *)
(***************************************************************************)
EXTENDS Integers, Sequences, FiniteSets, TLC

(***************************************************************************)
(* Program constants                                                       *)
(***************************************************************************)
\* Time in SpecTime is counted in ticks of millis() with the counter width
\* and the two intervals scaled down together (real values: 32 bits, 3000
\* and 30000); only the order of the intervals, and that both are far below
\* the counter's range, is kept.
\* uint32_t now = millis();
TimeBits == 4
Wrap == 2 ^ TimeBits
\* MQTT_RECONNECT_INTERVAL
ReconnectInterval == 2
\* STATUS_PUBLISH_INTERVAL
StatusInterval == 3
\* xQueueCreate(4, sizeof(ToolJob))
QueueCap == 4
\* char payload[768]
PayloadCap == 768
\* StaticJsonDocument<2048> tmp: the document the URL patch parses into
PatchCap == 2048
\* StaticJsonDocument<2048> doc of ObservationBuilder
BuilderCap == 2048
\* mqtt.setBufferSize(2048)
PubCap == 2048

(***************************************************************************)
(* Bounds of the model                                                     *)
(***************************************************************************)
\* command/port-set messages the broker delivers in one boot (Spec)
MaxMsgs == 2
\* command messages the broker delivers in one boot (SpecQueue)
MaxBurst == 5
\* tools registered (SpecDispatch)
MaxTools == 3
\* command messages the broker delivers in one boot (SpecWorker)
MaxJobs == 3
\* packets the broker delivers in one boot (SpecStall)
MaxStall == 3
\* Input Port slots created (SpecPorts)
MaxPorts == 3
\* command messages the broker delivers in one boot (SpecBroker)
MaxCmds == 1
\* Output Ports registered (SpecOut)
MaxOuts == 3
\* packets the broker delivers in one boot (SpecIngress)
MaxIn == 3
\* command packets the broker delivers in one boot (SpecLive)
MaxLive == 2
\* commands dispatched (SpecRid)
MaxRids == 3
\* milliseconds one pass of loop() may last (SpecEvent)
MaxLag == 2
\* ExampleDigitalEvent's default interval_ms
DefaultInterval == 3

Ctx == {"loop", "worker"}
None == [id |-> 0]

Min(a, b) == IF a < b THEN a ELSE b
Max(a, b) == IF a > b THEN a ELSE b

VARIABLES
  queueCreated,   \* g_toolJobQueue != nullptr
  mutexCreated,   \* g_mqttMutex != nullptr
  mode,           \* RUN_MODE: "run" | "provision"
  tools,          \* ToolRegistry::tools, names in registration order
  conn,           \* mqtt handle: "up" | "down" | "lost" (link gone, _state stale)
  mutex,          \* owner of g_mqttMutex: "free" | "loop" | "worker"
  wire,           \* chunks of the packet being written to the socket
  garbled,        \* some packet's chunks were not contiguous on the wire
  inbox,          \* inbound packet waiting in the socket, or None
  queue,          \* g_toolJobQueue contents (FIFO)
  pc,             \* position of each context
  prog,           \* calls each context still has to make
  phase,          \* position of the control loop inside loop()
  cbMsg,          \* packet handed to the receive callback, or None
  job,            \* ToolJob the worker holds, or None
  evt,            \* worker's eventsJson / dispatch result
  inports,        \* PortRegistry::inports
  outports,       \* PortRegistry::outports, names in registration order
                  \* ("null" for a null pointer)
  pa,             \* SpecPatch: the last asset URL patch, its input and output
  rd,             \* SpecRid: millis() and the request ids dispatch generated
                  \* for the last two commands that carried none
  ev,             \* SpecEvent: the digital_event tool, loop()'s time sample and
                  \* the outcome of the last invoke or tick
  nMsgs,          \* packets delivered so far (arrival ids)
  rx,             \* per arrival id: what the callback did with the packet
  deq,            \* ids of the Jobs in the order the worker dequeued them
  active,         \* ids of the Jobs dequeued and not yet finished
  sent,           \* events packets written for the Job dequeued last
  dCmd, dRes,     \* SpecDispatch: last command dispatched and its outcome
  dOut,           \* SpecDispatch: what the invoked tool did in that dispatch
  dInit,          \* SpecDispatch: the last initAll call and its outcome
  pOp,            \* SpecPorts: the last PortRegistry call, the slots before it
                  \* and the number of createInPort calls so far
  tm,             \* SpecTime: millis(), the timestamps loop() compares it
                  \* with, and the time elapsed since the events they stand for
  broker,         \* the broker's view of the device: session, registered
                  \* will, retained messages (followed in SpecBroker only)
  connLog         \* what mqttConnect has subscribed to and the control loop
                  \* has published since the last handshake, until the loop
                  \* iteration that made it ends (followed in SpecBroker only)

vars == <<queueCreated, mutexCreated, mode, tools, conn, mutex, wire, garbled,
          inbox, queue, pc, prog, phase, cbMsg, job, evt, inports, nMsgs, rx,
          deq, active, sent, dCmd, dRes, dOut, dInit, pOp,
          tm, broker, connLog, outports, pa, rd, ev>>

hwVars   == <<queueCreated, mutexCreated, mode, tools>>
auxVars  == <<pa, rd, ev>>
dispVars == <<dCmd, dRes, dOut, dInit, pOp, tm, outports, auxVars>>
ghost    == <<nMsgs, rx, deq, active, sent>>
obsVars  == <<broker, connLog>>

(***************************************************************************)
(* Capability registry: ToolRegistry::dispatch                             *)
(***************************************************************************)
\* Case folding of the names used in the model (for the comparison mutant).
Lower(s) ==
  CASE s = "A" -> "a"
    [] s = "B" -> "b"
    [] OTHER -> s

\* String::operator==(const char*): strcmp-based, exact and case-sensitive.
NameEqNoCase(a, b) == Lower(a) = Lower(b)
NameEq(a, b) == a = b

\* the same scan keeping the last match instead of stopping at the first
FindToolLast(ts, name) ==
  LET hits == {i \in 1..Len(ts) : NameEq(name, ts[i])}
  IN IF hits = {} THEN 0 ELSE CHOOSE i \in hits : \A j \in hits : i >= j

\* for(auto* t:tools){ if(toolName==t->name()){ target=t; break; } }
\* index of the first tool with that name, 0 when there is none
FindTool(ts, name) ==
  LET hits == {i \in 1..Len(ts) : NameEq(name, ts[i])}
  IN IF hits = {} THEN 0 ELSE CHOOSE i \in hits : \A j \in hits : i <= j

\* ObservationBuilder as constructed: ok=false, result.text="", result.assets
\* empty, no request_id, no error object (err = "": the object is absent)
NewObs == [ok |-> FALSE, rid |-> "", text |-> "", err |-> "", assets |-> <<>>]

\* ObservationBuilder's member functions
ObSetRequestId(ob, rid) == [ob EXCEPT !.rid = rid]
ObError(ob, code)       == [ob EXCEPT !.ok = FALSE, !.err = code]
ObSetText(ob, text)     == [ob EXCEPT !.text = text]
ObAddAsset(ob, a)       == [ob EXCEPT !.assets = Append(ob.assets, a)]
ObSuccess(ob, text)     == ObSetText([ob EXCEPT !.ok = TRUE], text)

\* one call a tool makes on the builder it was given
BOp(o, a) == [op |-> o, arg |-> a]
ObApply(ob, c) ==
  CASE c.op = "success"  -> ObSuccess(ob, c.arg)
    [] c.op = "error"    -> ObError(ob, c.arg)
    [] c.op = "setText"  -> ObSetText(ob, c.arg)
    [] c.op = "addAsset" -> ObAddAsset(ob, c.arg)

\* the builder after the calls of a tool's invoke, in order
RECURSIVE ObRun(_, _)
ObRun(ob, calls) ==
  IF calls = <<>> THEN ob ELSE ObRun(ObApply(ob, Head(calls)), Tail(calls))

\* What an invoke does: the calls it makes on the builder and what it returns.
\* The tools of the firmware image have three return paths:
\*   out.success(payload); return true;     (every tool)
\*   out.error(code, msg); return false;    (PlayLEDPattern, SavePattern, ...)
\*   return false;                          (ExpressEmotion, unknown mood)
Outcome(r, calls) == [ret |-> r, calls |-> calls]
RunOutcomes ==
  { Outcome(TRUE,  <<BOp("success", "done")>>),
    Outcome(FALSE, <<BOp("error", "tool_error")>>),
    Outcome(FALSE, <<>>) }

\* ITool::invoke is an interface: a tool may make any calls and return either
\* value
ToolOutcomes ==
  RunOutcomes \cup
  { Outcome(FALSE, <<BOp("success", "done")>>),
    Outcome(TRUE,  <<BOp("error", "tool_error")>>),
    Outcome(TRUE,  <<BOp("error", "tool_error"), BOp("success", "done")>>),
    Outcome(TRUE,  <<BOp("addAsset", "/a.jpg"), BOp("setText", "shot")>>) }

\* String(millis(),HEX): never the empty string (millis() = 0 gives "0")
GenRid == "gen"

\* registry.cpp lines 15-16: strcmp(type,"device.command") != 0 -> return false
IsCommandAny(cmd) == TRUE
IsCommand(cmd) == cmd.type = "device.command"

\* registry.cpp line 38: rid.length() ? rid : String(millis(),HEX)
RidOfRaw(cmd) == cmd.rid
RidOf(cmd) == IF cmd.rid # "" THEN cmd.rid ELSE GenRid

\* registry.cpp lines 48, 52: bool ok = target->invoke(args, ob); return ok;
PassReturnOk(ob, out) == ObRun(ob, out.calls).ok
PassReturn(ob, out) == out.ret

\* bool ToolRegistry::dispatch(cmd, outEventsJson, http_base)
\*   wrote: outEventsJson was assigned; invoked: indices of the tools invoked
Dispatch(ts, cmd, out) ==
  IF ~IsCommand(cmd)
  THEN [ret |-> FALSE, wrote |-> FALSE, obs |-> NewObs, invoked |-> <<>>]
  ELSE LET target == FindTool(ts, cmd.tool)
           ob     == ObSetRequestId(NewObs, RidOf(cmd))
       IN IF target = 0
          THEN [ret |-> FALSE, wrote |-> TRUE,
                obs |-> ObError(ob, "unsupported_tool"),
                invoked |-> <<>>]
          ELSE [ret |-> PassReturn(ob, out), wrote |-> TRUE,
                obs |-> ObRun(ob, out.calls),
                invoked |-> <<target>>]

\* ToolRegistry::initAll: bool ok=true; for(auto* t:tools) ok=t->init() && ok;
\*   acc.calls: indices of the tools whose init was called, in call order
InitStepShort(acc, i, r) ==
  IF acc.ok THEN [ok |-> r, calls |-> Append(acc.calls, i)] ELSE acc
InitStep(acc, i, r) == [ok |-> r /\ acc.ok, calls |-> Append(acc.calls, i)]

RECURSIVE InitLoop(_, _, _, _)
InitLoop(acc, i, n, res) ==
  IF i > n THEN acc ELSE InitLoop(InitStep(acc, i, res[i]), i + 1, n, res)

\* res[i]: what the init of the i-th tool returns
InitAllResult(ts, res) == InitLoop([ok |-> TRUE, calls |-> <<>>], 1, Len(ts), res)

(***************************************************************************)
(* Calls a context still has to make (prog entries)                        *)
(***************************************************************************)
\* if (!mqtt.connected()) return;  -- on failure the next `skip` calls of the
\* enclosing function are not made
\* a call still to be made; body: what a published message says ("": empty)
Chk(n)        == [op |-> "chk", topic |-> "", retain |-> FALSE, skip |-> n,
                  id |-> 0, body |-> ""]
\* mqttPublishSafe(topic, msg, retain); id: the Job the message answers
\* (0: none)
PubMsg(t, r, i, b) == [op |-> "pub", topic |-> t, retain |-> r, skip |-> 0,
                       id |-> i, body |-> b]
Pub(t, r, i)  == PubMsg(t, r, i, "doc")
MLoopOp       == [op |-> "mloop", topic |-> "", retain |-> FALSE, skip |-> 0,
                  id |-> 0, body |-> ""]
ConnOp        == [op |-> "conn", topic |-> "", retain |-> FALSE, skip |-> 0,
                  id |-> 0, body |-> ""]
DiscOp        == [op |-> "disc", topic |-> "", retain |-> FALSE, skip |-> 0,
                  id |-> 0, body |-> ""]
RestartOp     == [op |-> "restart", topic |-> "", retain |-> FALSE, skip |-> 0,
                  id |-> 0, body |-> ""]

publishAnnounce       == <<Chk(1), Pub("announce", TRUE, 0)>>
publishPortsAnnounce  == <<Chk(1), Pub("ports/announce", TRUE, 0)>>
\* publishStatus(bool online): doc["online"] = online, published unretained
publishStatus(online) ==
  <<Chk(1), PubMsg("status", FALSE, 0, IF online THEN "online" ELSE "offline")>>
\* the same without the status topic
clearRetainedMessagesTwo == <<Chk(2), PubMsg("announce", TRUE, 0, ""),
                              PubMsg("ports/announce", TRUE, 0, "")>>
\* three retained publishes of the empty string
clearRetainedMessages == <<Chk(3), PubMsg("announce", TRUE, 0, ""),
                           PubMsg("status", TRUE, 0, ""),
                           PubMsg("ports/announce", TRUE, 0, "")>>
port_publish_data     == <<Chk(1), Pub("ports/data", FALSE, 0)>>

\* server.on(...) handlers
HttpHandler(r) ==
  CASE r = "status_now"     -> <<Chk(2)>> \o publishStatus(TRUE)
    [] r = "reannounce"     -> <<Chk(4)>> \o publishAnnounce
                                           \o publishPortsAnnounce
    [] r = "clear_retained" -> <<Chk(4)>> \o clearRetainedMessages
    [] r = "factory_reset"  -> <<Chk(5)>> \o clearRetainedMessages \o <<DiscOp, RestartOp>>

HttpRequests == {"status_now", "reannounce", "clear_retained", "factory_reset"}

Drop(s, n) == SubSeq(s, Min(n, Len(s)) + 1, Len(s))

(***************************************************************************)
(* The transport handle                                                    *)
(***************************************************************************)
\* PubSubClient::connected(): true iff the link is up; a stale _state is
\* corrected (the client is stopped) as a side effect
ConnAfterCheck == IF conn = "lost" THEN "down" ELSE conn
IsConnected    == conn = "up"

\* A context starts / ends writing a two-chunk packet, or writes a one-chunk one.
\* wire: the context whose packet is open on the socket, "idle" when none is.
WireHead(c)    == /\ wire' = IF wire = "idle" THEN c ELSE wire
                  /\ garbled' = (garbled \/ wire # "idle")
WireTail(c)    == /\ wire' = "idle"
                  /\ garbled' = (garbled \/ wire # c)
WireWhole(c)   == /\ wire' = wire
                  /\ garbled' = (garbled \/ wire # "idle")

(***************************************************************************)
(* The Transport Guard: g_mqttMutex                                        *)
(***************************************************************************)
\* if (g_mqttMutex) xSemaphoreTake(g_mqttMutex, portMAX_DELAY);
CanTakeNoWait == TRUE
CanTake    == mutexCreated => mutex = "free"
Taken(c)   == IF mutexCreated THEN c ELSE mutex
\* if (g_mqttMutex) xSemaphoreGive(g_mqttMutex);
Given(c)   == IF mutexCreated /\ mutex = c THEN "free" ELSE mutex

At(c, p)     == pc[c] = p
Goto(c, p)   == pc' = [pc EXCEPT ![c] = p]
HeadOp(c)    == Head(prog[c])
AtOp(c, o)   == pc[c] = "run" /\ prog[c] # <<>> /\ HeadOp(c).op = o
Pop(c)       == prog' = [prog EXCEPT ![c] = Tail(prog[c])]

\* position of a context inside a section bracketed by take/give
InGuarded(c) == pc[c] \in {"pub_w1", "pub_w2", "pub_give", "loop_run", "cb",
                           "loop_give", "conn_do", "conn_fail", "conn_sub",
                           "conn_give", "disc_do", "disc_give"}
\* position of a context inside the transport operation itself
InOperation(c) == pc[c] \in {"pub_w1", "pub_w2", "loop_run", "cb", "conn_do",
                             "conn_sub", "disc_do"}
Waiting(c)   == pc[c] \in {"pub_take", "loop_take", "conn_take"} \/ AtOp(c, "disc")

(***************************************************************************)
(* Messages, Jobs                                                          *)
(***************************************************************************)
\* a parsed command document; json = FALSE: deserializeJson fails
CmdBody(j, ty, tl, r) == [json |-> j, type |-> ty, tool |-> tl, rid |-> r]
\* a parsed port-set document
SetBody(j, p, v)      == [json |-> j, port |-> p, value |-> v,
                          hasValue |-> TRUE]
\* a port-set record with no "value" member (port "": no "port" member)
SetBodyBare(p)        == [json |-> TRUE, port |-> p, value |-> 0,
                          hasValue |-> FALSE]

RunTools    == <<"ExpressEmotion", "PlayLEDPattern", "StopLEDPattern">>
RunInPorts  == <<[name |-> "var_a", dataType |-> "float", value |-> 0]>>
RunOutPorts == <<"impact_live">>
NoEvt       == [ret |-> FALSE, wrote |-> FALSE, obs |-> NewObs, invoked |-> <<>>]
NoCmd       == CmdBody(FALSE, "", "", "")
NoOut       == Outcome(FALSE, <<>>)
NoInit      == [done |-> FALSE, ret |-> FALSE, calls |-> <<>>, res |-> <<>>]
\* unsigned subtraction and addition of millis() values
TSub(a, b)  == (a - b + Wrap) % Wrap
TAdd(a, d)  == (a + d) % Wrap
\* time elapsed since an event, counted up to the interval it is compared with
Elapse(e, d, cap) == Min(e + d, cap)
NoEv        == [kind |-> "none", gap |-> 0, prevFailed |-> FALSE]
TimeOff     == [at |-> "off", clock |-> 0, now |-> 0, lastStatusMs |-> 0,
                lastMqttTry |-> 0, up |-> FALSE, sinceOk |-> 0,
                sinceTry |-> 0, tryFailed |-> FALSE, sincePer |-> 0,
                perFailed |-> FALSE, ev |-> NoEv, gapOk |-> 0]
NoAnn       == [type |-> "none"]
NoPatch     == [path |-> "none"]
NoRid       == [clock |-> 0, prev |-> -1, cur |-> -1, cmds |-> 0]
\* ExampleDigitalEvent as constructed, before loop() first runs
EvOff       == [active |-> FALSE, res |-> "none", at |-> "top", clock |-> 0,
                now |-> 0, lag |-> 0, interval_ms |-> DefaultInterval,
                last_emit_ms |-> 0, el |-> 0]
NoPortOp    == [op |-> "none", name |-> "", dataType |-> "", value |-> 0,
                before |-> <<>>, creates |-> 0, calls |-> <<>>,
                prev |-> NoAnn, lastPorts |-> NoAnn, lastTools |-> NoAnn]

RunPayloads == {CmdBody(TRUE, "device.command", "ExpressEmotion", "r1")}
RunLens     == {767}
RunSets     == {SetBody(TRUE, "var_a", 1)}
QueueLens   == {767, 768, 769}
\* one command of each kind the worker tells apart: a tool of the image, a
\* document of another type, an unregistered tool, an unparsable payload
WorkerPayloads == {CmdBody(TRUE, "device.command", "ExpressEmotion", "r1"),
                   CmdBody(TRUE, "device.other", "ExpressEmotion", "r2"),
                   CmdBody(TRUE, "device.command", "NoSuchTool", "r3"),
                   CmdBody(FALSE, "", "", "")}
StallPayloads  == {CmdBody(TRUE, "device.command", "ExpressEmotion", "r1")}
QueuePayloads == {CmdBody(TRUE, "device.command", "ExpressEmotion", "r1"),
                  CmdBody(FALSE, "", "", "")}

(***************************************************************************)
(* The broker's side of the session (MQTT 3.1.1): the will registered by   *)
(* CONNECT is published when the link is lost without DISCONNECT and is    *)
(* discarded by DISCONNECT; a retained publish replaces the retained       *)
(* message of its topic, an empty one removes it.  With `on` false the     *)
(* broker is not followed and the record never changes.                    *)
(***************************************************************************)
RetainedTopics == {"announce", "status", "ports/announce"}
NoRetained     == [t \in RetainedTopics |-> ""]
NoWill         == [topic |-> "", body |-> "", retain |-> FALSE]
\* a will registered without the retained flag
LastWillUnretained == [topic |-> "status", body |-> "offline", retain |-> FALSE]
\* mqttConnect lines 198-221: will["online"] = false, willTopic topicStat(),
\* willQos 0, willRetain true
LastWill       == [topic |-> "status", body |-> "offline", retain |-> TRUE]

BrokerOff   == [on |-> FALSE, session |-> "none", will |-> NoWill,
                retained |-> NoRetained, devOffline |-> FALSE]
BrokerFresh == [BrokerOff EXCEPT !.on = TRUE]

BrokerRetain(b, m) ==
  IF m.retain /\ m.topic \in RetainedTopics
  THEN [b EXCEPT !.retained[m.topic] = m.body]
  ELSE b
\* the broker receives a message published by the device
BrokerPublish(b, m) ==
  IF ~b.on THEN b
  ELSE [BrokerRetain(b, m) EXCEPT
          !.devOffline = b.devOffline
                           \/ (m.topic = "status" /\ m.body = "offline")]
\* the broker accepts a CONNECT carrying the will w
BrokerConnect(b, w) ==
  IF ~b.on THEN b ELSE [b EXCEPT !.session = "open", !.will = w]
\* the broker finds the link gone without a DISCONNECT
BrokerLoss(b) ==
  IF ~b.on \/ b.session # "open" THEN b
  ELSE [BrokerRetain(b, b.will) EXCEPT !.session = "lost", !.will = NoWill]
\* the broker receives DISCONNECT
BrokerDisconnect(b) ==
  IF ~b.on \/ b.session # "open" THEN b
  ELSE [b EXCEPT !.session = "closed", !.will = NoWill]
\* startRuntime line 394: mqttConnect() succeeded during setup()
BrokerSetup(b) ==
  BrokerPublish(BrokerPublish(BrokerConnect(b, LastWill),
                              publishAnnounce[2]), publishPortsAnnounce[2])

LogOff    == [on |-> FALSE, open |-> FALSE, subs |-> <<>>, pubs |-> <<>>]
LogClosed == [LogOff EXCEPT !.on = TRUE]
LogOpen(l)    == IF l.on THEN [LogClosed EXCEPT !.open = TRUE] ELSE l
LogSub(l, ts) == IF l.on /\ l.open THEN [l EXCEPT !.subs = @ \o ts] ELSE l
LogPub(l, m)  ==
  IF l.on /\ l.open
  THEN [l EXCEPT !.pubs = Append(@, [topic |-> m.topic, retain |-> m.retain,
                                     body |-> m.body])]
  ELSE l
LogClose(l)   == IF l.on THEN LogClosed ELSE l

(***************************************************************************)
(* Boot: the state setup() leaves behind (runtime mode)                    *)
(***************************************************************************)
Boot(q, m, cn) ==
  /\ queueCreated' = q
  /\ mutexCreated' = m
  /\ mode' = "run"
  /\ tools' = RunTools
  /\ conn' = cn
  /\ mutex' = "free"
  /\ wire' = "idle"
  /\ garbled' = FALSE
  /\ inbox' = None
  /\ queue' = <<>>
  /\ pc' = [c \in Ctx |-> IF c = "loop" THEN "run" ELSE "recv"]
  /\ prog' = [c \in Ctx |-> <<>>]
  /\ phase' = "http"
  /\ cbMsg' = None
  /\ job' = None
  /\ evt' = NoEvt
  /\ inports' = RunInPorts
  /\ nMsgs' = 0
  /\ rx' = <<>>
  /\ deq' = <<>>
  /\ active' = {}
  /\ sent' = 0
  /\ broker' = IF cn = "up" THEN BrokerSetup(BrokerLoss(broker))
                ELSE BrokerLoss(broker)
  /\ connLog' = LogClose(connLog)
  /\ UNCHANGED dispVars

\* the state setup() leaves behind, on either outcome of its allocations and of
\* its connect attempt
InitCore ==
  /\ queueCreated \in BOOLEAN
  /\ mutexCreated \in BOOLEAN
  /\ mode = "run"
  /\ tools = RunTools
  /\ conn \in {"up", "down"}
  /\ mutex = "free"
  /\ wire = "idle"
  /\ garbled = FALSE
  /\ inbox = None
  /\ queue = <<>>
  /\ pc = [c \in Ctx |-> IF c = "loop" THEN "run" ELSE "recv"]
  /\ prog = [c \in Ctx |-> <<>>]
  /\ phase = "http"
  /\ cbMsg = None
  /\ job = None
  /\ evt = NoEvt
  /\ inports = RunInPorts
  /\ nMsgs = 0
  /\ rx = <<>>
  /\ deq = <<>>
  /\ active = {}
  /\ sent = 0
  /\ dCmd = NoCmd
  /\ dRes = NoEvt
  /\ dOut = NoOut
  /\ dInit = NoInit
  /\ pOp = NoPortOp
  /\ tm = TimeOff
  /\ outports = RunOutPorts
  /\ pa = NoPatch
  /\ rd = NoRid
  /\ ev = EvOff

Init ==
  /\ InitCore
  /\ broker = BrokerOff
  /\ connLog = LogOff

Running == mode = "run"

(***************************************************************************)
(* Environment: broker and network                                         *)
(***************************************************************************)
\* the broker delivers a packet on a subscribed topic
Deliver(topic, len, body, max) ==
  /\ Running /\ conn = "up" /\ inbox.id = 0 /\ nMsgs < max
  /\ inbox' = [id |-> nMsgs + 1, topic |-> topic, len |-> len, body |-> body]
  /\ nMsgs' = nMsgs + 1
  /\ rx' = Append(rx, "pending")
  /\ UNCHANGED <<hwVars, conn, mutex, wire, garbled, queue, pc, prog, phase,
                 cbMsg, job, evt, inports, deq, active, sent, dispVars, obsVars>>

\* the TCP link to the broker is lost; the client's _state is not yet updated
ConnDrop ==
  /\ Running /\ conn = "up"
  /\ conn' = "lost"
  /\ inbox' = None
  /\ wire' = "idle"
  /\ broker' = BrokerLoss(broker)
  /\ UNCHANGED <<hwVars, mutex, garbled, queue, pc, prog, phase, cbMsg, job,
                 evt, inports, ghost, dispVars, connLog>>

(***************************************************************************)
(* Helpers shared by both contexts                                         *)
(***************************************************************************)
ctlFrame == <<hwVars, inbox, queue, phase, cbMsg, job, evt, inports, ghost, dispVars, obsVars>>

\* if (!mqtt.connected()) return;   (publishStatus, publishAnnounce,
\* publishPortsAnnounce, clearRetainedMessages, port_publish_data, handlers)
CheckConnected(c) ==
  /\ Running /\ AtOp(c, "chk")
  /\ conn' = ConnAfterCheck
  /\ prog' = [prog EXCEPT ![c] =
                IF IsConnected THEN Tail(prog[c])
                ELSE Drop(prog[c], 1 + HeadOp(c).skip)]
  /\ UNCHANGED <<ctlFrame, mutex, wire, garbled, pc>>

\* mqttPublishSafe line 104: if (!mqtt.connected()) return false;
PubCheckRetry(c) ==
  /\ Running /\ AtOp(c, "pub")
  /\ conn' = ConnAfterCheck
  /\ IF IsConnected
     THEN Goto(c, "pub_take") /\ UNCHANGED prog
     ELSE UNCHANGED <<prog, pc>>
  /\ UNCHANGED <<ctlFrame, mutex, wire, garbled>>

PubCheck(c) ==
  /\ Running /\ AtOp(c, "pub")
  /\ conn' = ConnAfterCheck
  /\ IF IsConnected
     THEN Goto(c, "pub_take") /\ UNCHANGED prog
     ELSE Pop(c) /\ UNCHANGED pc
  /\ UNCHANGED <<ctlFrame, mutex, wire, garbled>>

\* mqttPublishSafe line 105
PubTake(c) ==
  /\ Running /\ At(c, "pub_take")
  /\ CanTake
  /\ mutex' = Taken(c)
  /\ Goto(c, "pub_w1")
  /\ UNCHANGED <<ctlFrame, conn, wire, garbled, prog>>

\* mqttPublishSafe line 106, first part of mqtt.publish()
PubWrite1(c) ==
  /\ Running /\ At(c, "pub_w1")
  /\ conn' = ConnAfterCheck
  /\ IF IsConnected
     THEN WireHead(c) /\ Goto(c, "pub_w2")
     ELSE UNCHANGED <<wire, garbled>> /\ Goto(c, "pub_give")
  /\ UNCHANGED <<ctlFrame, mutex, prog>>

\* mqttPublishSafe line 106, rest of mqtt.publish()
PubWrite2(c) ==
  /\ Running /\ At(c, "pub_w2")
  /\ IF conn = "up" THEN WireTail(c) ELSE UNCHANGED <<wire, garbled>>
  /\ sent' = IF c = "worker" /\ conn = "up" THEN sent + 1 ELSE sent
  /\ broker' = IF conn = "up" THEN BrokerPublish(broker, HeadOp(c)) ELSE broker
  /\ connLog' = IF c = "loop" /\ conn = "up" THEN LogPub(connLog, HeadOp(c))
                 ELSE connLog
  /\ Goto(c, "pub_give")
  /\ UNCHANGED <<hwVars, inbox, queue, phase, cbMsg, job, evt, inports, nMsgs,
                 rx, deq, active, dispVars, conn, mutex, prog>>

\* mqttPublishSafe lines 107-108
PubGive(c) ==
  /\ Running /\ At(c, "pub_give")
  /\ mutex' = Given(c)
  /\ Pop(c)
  /\ Goto(c, "run")
  /\ UNCHANGED <<ctlFrame, conn, wire, garbled>>

(***************************************************************************)
(* Control loop: mqttLoopSafe and the receive callback                     *)
(***************************************************************************)
L == "loop"
W == "worker"

\* mqttLoopSafe line 112
LoopCheck ==
  /\ Running /\ AtOp(L, "mloop")
  /\ conn' = ConnAfterCheck
  /\ IF IsConnected
     THEN Goto(L, "loop_take") /\ UNCHANGED prog
     ELSE Pop(L) /\ UNCHANGED pc
  /\ UNCHANGED <<ctlFrame, mutex, wire, garbled>>

\* mqttLoopSafe line 113
LoopTake ==
  /\ Running /\ At(L, "loop_take")
  /\ CanTake
  /\ mutex' = Taken(L)
  /\ Goto(L, "loop_run")
  /\ UNCHANGED <<ctlFrame, conn, wire, garbled, prog>>

\* mqttLoopSafe line 114: mqtt.loop() reads at most one packet and hands it
\* to the callback; with none waiting it may write a keep-alive ping
LoopRun ==
  /\ Running /\ At(L, "loop_run")
  /\ conn' = ConnAfterCheck
  /\ IF IsConnected /\ inbox.id # 0
     THEN /\ cbMsg' = inbox
          /\ inbox' = None
          /\ Goto(L, "cb")
          /\ UNCHANGED <<wire, garbled>>
     ELSE /\ UNCHANGED <<cbMsg, inbox>>
          /\ Goto(L, "loop_give")
          /\ IF IsConnected
             THEN \E ping \in BOOLEAN :
                    IF ping THEN WireWhole(L) ELSE UNCHANGED <<wire, garbled>>
             ELSE UNCHANGED <<wire, garbled>>
  /\ UNCHANGED <<hwVars, queue, phase, job, evt, inports, ghost, dispVars, obsVars,
                 mutex, prog>>

\* mqttLoopSafe line 115
LoopGive ==
  /\ Running /\ At(L, "loop_give")
  /\ mutex' = Given(L)
  /\ Pop(L)
  /\ Goto(L, "run")
  /\ UNCHANGED <<ctlFrame, conn, wire, garbled>>

\* line 373: if (length >= sizeof(ToolJob::payload))
Oversize(len) == len >= PayloadCap

\* xQueueSend(g_toolJobQueue, &job, 0): with a timeout of 0 ticks the call
\* never waits for room
SendTicks == 0
QueueSendBlocking(q) == Len(q) < QueueCap
QueueSendReady(q) == SendTicks > 0 => Len(q) < QueueCap

\* xQueueSend returns pdTRUE iff the queue has a free slot
QueueSendOkOffByOne(q) == Len(q) <= QueueCap
QueueSendOk(q) == Len(q) < QueueCap

\* xQueueSend: on pdTRUE the item is copied to the back, else nothing changes
QueueSendOverwrite(q, j) == IF QueueSendOk(q) THEN Append(q, j)
                            ELSE Append(Tail(q), j)
QueueSend(q, j) == IF QueueSendOk(q) THEN Append(q, j) ELSE q

\* callback lines 368-389: what becomes of a cmd packet of that length
CmdVerdict(len, q) ==
  IF ~queueCreated THEN "noqueue"
  ELSE IF Oversize(len) THEN "oversize"
  ELSE IF ~QueueSendOk(q) THEN "full"
  ELSE "enq"

\* PortRegistry::findInPort / handleInPortSet
\* the same scan keeping the last match instead of returning at the first
FindInPortLast(ps, name) ==
  LET hits == {i \in 1..Len(ps) : ps[i].name = name}
  IN IF hits = {} THEN 0 ELSE CHOOSE i \in hits : \A j \in hits : i >= j

FindInPort(ps, name) ==
  LET hits == {i \in 1..Len(ps) : ps[i].name = name}
  IN IF hits = {} THEN 0 ELSE CHOOSE i \in hits : \A j \in hits : i <= j

\* a set that creates the slot it does not find
HandleInPortSetCreate(ps, name, value) ==
  LET i == FindInPort(ps, name)
  IN IF i = 0
     THEN Append(ps, [name |-> name, dataType |-> "float", value |-> value])
     ELSE [ps EXCEPT ![i].value = value]

HandleInPortSet(ps, name, value) ==
  LET i == FindInPort(ps, name)
  IN IF i = 0 THEN ps ELSE [ps EXCEPT ![i].value = value]

\* a create that refuses a name already present
CreateInPortUnique(ps, name, type) ==
  IF FindInPort(ps, name) # 0 THEN ps
  ELSE Append(ps, [name |-> name, dataType |-> type, value |-> 0])

\* PortRegistry::createInPort: push_back of a slot with value 0.0f
CreateInPort(ps, name, type) ==
  Append(ps, [name |-> name, dataType |-> type, value |-> 0])

\* PortRegistry::inportCount
InportCount(ps) == Len(ps)

\* port_get_inport_value: the value of the slot findInPort returns, NAN if none
PortGetInportValue(ps, name) ==
  LET i == FindInPort(ps, name)
  IN IF i = 0 THEN "NaN" ELSE ps[i].value

\* PortRegistry::addOutPort (port_registry.h line 35)
AddOutPort(outs, p) == Append(outs, p)

RECURSIVE TickFrom(_, _, _)
\* the loop of tickAll from slot i on, a null pointer ends it
TickFromStop(outs, now, i) ==
  IF i > Len(outs) \/ outs[i] = "null" THEN <<>>
  ELSE <<[port |-> outs[i], now |-> now]>> \o TickFrom(outs, now, i + 1)

\* the loop of PortRegistry::tickAll from slot i on: the tick calls it makes
TickFrom(outs, now, i) ==
  IF i > Len(outs) THEN <<>>
  ELSE IF outs[i] = "null" THEN TickFrom(outs, now, i + 1)
  ELSE <<[port |-> outs[i], now |-> now]>> \o TickFrom(outs, now, i + 1)

TickAllStop(outs, now) == TickFromStop(outs, now, 1)

\* PortRegistry::tickAll (port_registry.cpp lines 29-35)
TickAll(outs, now) == TickFrom(outs, now, 1)

\* InPort::describe with the slot's value added to the record
InPortDescribeValue(ip) ==
  [name |-> ip.name, type |-> "inport", data_type |-> ip.dataType,
   value |-> ip.value]

\* InPort::describe (port_registry.h lines 23-28)
InPortDescribe(ip) ==
  [name |-> ip.name, type |-> "inport", data_type |-> ip.dataType]

RECURSIVE OutDescribeFrom(_, _)
\* the outports loop of buildAnnounce from slot i on: one describe per
\* non-null pointer
OutDescribeFrom(outs, i) ==
  IF i > Len(outs) THEN <<>>
  ELSE IF outs[i] = "null" THEN OutDescribeFrom(outs, i + 1)
  ELSE <<[name |-> outs[i], type |-> "outport"]>>
         \o OutDescribeFrom(outs, i + 1)

\* PortRegistry::buildAnnounce (port_registry.cpp lines 37-66); stamp is
\* the wall-clock time it reads
PortsBuildAnnounce(outs, ins, stamp) ==
  [type |-> "ports.announce", timestamp |-> stamp,
   outports |-> OutDescribeFrom(outs, 1),
   inports |-> [i \in 1..Len(ins) |-> InPortDescribe(ins[i])]]

\* ToolRegistry::buildAnnounce (registry.cpp lines 4-12)
ToolsBuildAnnounce(ts) ==
  [type |-> "device.announce",
   tools |-> [i \in 1..Len(ts) |-> [name |-> ts[i]]]]

\* the lambda given to mqtt.setCallback (lines 344-392)
CallbackReentrant ==
  /\ Running /\ At(L, "cb")
  /\ cbMsg' = None
  /\ Goto(L, "pub_take")
  /\ UNCHANGED <<hwVars, conn, mutex, wire, garbled, inbox, queue, phase, job,
                 evt, inports, ghost, dispVars, obsVars, prog>>

\* lines 356-357 with a record lacking "value" dropped like one lacking
\* "port"
PortSetRecordStrict(ps, body) ==
  IF body.json /\ body.port # "" /\ body.hasValue
  THEN HandleInPortSet(ps, body.port, body.value)
  ELSE ps

\* callback lines 349-366: deserializeJson failed -> return;
\* portName = doc["port"] | nullptr; value = doc["value"] | 0.0f;
\* if (!portName) return; handleInPortSet(portName, value)
PortSetRecord(ps, body) ==
  IF body.json /\ body.port # ""
  THEN HandleInPortSet(ps, body.port,
                       IF body.hasValue THEN body.value ELSE 0)
  ELSE ps

\* what the callback did with a port-set packet: returned at the parse
\* error, returned for want of a port name, or called handleInPortSet, which
\* found no slot, wrote the record's value, or wrote the default 0.0f
PortSetMark(ps, body) ==
  IF ~body.json THEN "badset"
  ELSE IF body.port = "" THEN "noport"
  ELSE IF FindInPort(ps, body.port) = 0 THEN "portmiss"
  ELSE IF body.hasValue THEN "portset"
  ELSE "portset0"

\* a callback that hands every packet to the worker
CallbackQueueAll ==
  /\ Running /\ At(L, "cb")
  /\ cbMsg' = None
  /\ Goto(L, "loop_give")
  /\ LET v == CmdVerdict(cbMsg.len, queue)
         j == [id |-> cbMsg.id, len |-> cbMsg.len, body |-> cbMsg.body]
     IN /\ v \in {"enq", "full"} => QueueSendReady(queue)
        /\ queue' = IF v \in {"enq", "full"} THEN QueueSend(queue, j)
                    ELSE queue
        /\ rx' = [rx EXCEPT ![cbMsg.id] = v]
        /\ UNCHANGED inports
  /\ UNCHANGED <<hwVars, conn, mutex, wire, garbled, inbox, prog, phase, job,
                 evt, nMsgs, deq, active, sent, dispVars, obsVars>>

Callback ==
  /\ Running /\ At(L, "cb")
  /\ cbMsg' = None
  /\ Goto(L, "loop_give")
  /\ CASE cbMsg.topic = "ports/set" ->
            /\ inports' = PortSetRecord(inports, cbMsg.body)
            /\ rx' = [rx EXCEPT ![cbMsg.id] = PortSetMark(inports, cbMsg.body)]
            /\ UNCHANGED queue
       [] cbMsg.topic = "cmd" ->
            LET v == CmdVerdict(cbMsg.len, queue)
                j == [id |-> cbMsg.id, len |-> cbMsg.len, body |-> cbMsg.body]
            IN /\ v \in {"enq", "full"} => QueueSendReady(queue)
               /\ queue' = IF v \in {"enq", "full"} THEN QueueSend(queue, j)
                           ELSE queue
               /\ rx' = [rx EXCEPT ![cbMsg.id] = v]
               /\ UNCHANGED inports
       [] OTHER ->
            /\ rx' = [rx EXCEPT ![cbMsg.id] = "ignored"]
            /\ UNCHANGED <<queue, inports>>
  /\ UNCHANGED <<hwVars, conn, mutex, wire, garbled, inbox, prog, phase, job,
                 evt, nMsgs, deq, active, sent, dispVars, obsVars>>

(***************************************************************************)
(* Control loop: mqttConnect, factory reset                                *)
(***************************************************************************)
\* mqttConnect line 193: if (mqtt.connected()) return true;
ConnCheck ==
  /\ Running /\ AtOp(L, "conn")
  /\ conn' = ConnAfterCheck
  /\ IF IsConnected
     THEN Pop(L) /\ UNCHANGED pc
     ELSE Goto(L, "conn_setsrv") /\ UNCHANGED prog
  /\ UNCHANGED <<ctlFrame, mutex, wire, garbled>>

\* mqttConnect line 211: mqtt.setServer(...)
ConnSetServer ==
  /\ Running /\ At(L, "conn_setsrv")
  /\ Goto(L, "conn_take")
  /\ UNCHANGED <<ctlFrame, conn, mutex, wire, garbled, prog>>

\* mqttConnect line 213
ConnTake ==
  /\ Running /\ At(L, "conn_take")
  /\ CanTake
  /\ mutex' = Taken(L)
  /\ Goto(L, "conn_do")
  /\ UNCHANGED <<ctlFrame, conn, wire, garbled, prog>>

\* mqttConnect lines 214-221: mqtt.connect(...) succeeds or fails
ConnDo ==
  /\ Running /\ At(L, "conn_do")
  /\ \E ok \in BOOLEAN :
       IF ok
       THEN /\ conn' = "up"
            /\ wire' = "idle"
            /\ garbled' = (garbled \/ wire # "idle")
            /\ broker' = BrokerConnect(BrokerLoss(broker), LastWill)
            /\ connLog' = LogOpen(connLog)
            /\ Goto(L, "conn_sub")
       ELSE /\ conn' = "down"
            /\ UNCHANGED <<wire, garbled, connLog>>
            /\ broker' = BrokerLoss(broker)
            /\ Goto(L, "conn_fail")
  /\ inbox' = None
  /\ UNCHANGED <<hwVars, queue, phase, cbMsg, job, evt, inports, ghost,
                 dispVars, mutex, prog>>

\* mqttConnect lines 222-227: the failure return
ConnFailKeep ==
  /\ Running /\ At(L, "conn_fail")
  /\ Pop(L)
  /\ Goto(L, "run")
  /\ UNCHANGED <<ctlFrame, conn, wire, garbled, mutex>>

ConnFail ==
  /\ Running /\ At(L, "conn_fail")
  /\ mutex' = Given(L)
  /\ Pop(L)
  /\ Goto(L, "run")
  /\ UNCHANGED <<ctlFrame, conn, wire, garbled>>

\* mqttConnect lines 229-233: the two subscribes
ConnSubscribe ==
  /\ Running /\ At(L, "conn_sub")
  /\ IF conn = "up" THEN WireWhole(L) ELSE UNCHANGED <<wire, garbled>>
  /\ connLog' = IF conn = "up" THEN LogSub(connLog, <<"cmd", "ports/set">>)
                 ELSE connLog
  /\ Goto(L, "conn_give")
  /\ UNCHANGED <<hwVars, inbox, queue, phase, cbMsg, job, evt, inports, ghost,
                 dispVars, broker, conn, mutex, prog>>

\* the same with the status published before the announce
ConnGiveStatusFirst ==
  /\ Running /\ At(L, "conn_give")
  /\ mutex' = Given(L)
  /\ prog' = [prog EXCEPT ![L] = publishStatus(TRUE) \o publishAnnounce
                                 \o publishPortsAnnounce \o Tail(prog[L])]
  /\ Goto(L, "run")
  /\ UNCHANGED <<ctlFrame, conn, wire, garbled>>

\* mqttConnect lines 235-247: give, then announce, status, ports announce
ConnGive ==
  /\ Running /\ At(L, "conn_give")
  /\ mutex' = Given(L)
  /\ prog' = [prog EXCEPT ![L] = publishAnnounce \o publishStatus(TRUE)
                                 \o publishPortsAnnounce \o Tail(prog[L])]
  /\ Goto(L, "run")
  /\ UNCHANGED <<ctlFrame, conn, wire, garbled>>

\* /factory_reset line 299
DiscTake ==
  /\ Running /\ AtOp(L, "disc")
  /\ CanTake
  /\ mutex' = Taken(L)
  /\ Goto(L, "disc_do")
  /\ UNCHANGED <<ctlFrame, conn, wire, garbled, prog>>

\* /factory_reset line 300: mqtt.disconnect()
DiscDo ==
  /\ Running /\ At(L, "disc_do")
  /\ conn' = "down"
  /\ inbox' = None
  /\ IF conn = "up" THEN WireWhole(L) ELSE UNCHANGED <<wire, garbled>>
  /\ broker' = IF conn = "up" THEN BrokerDisconnect(broker)
                ELSE BrokerLoss(broker)
  /\ Goto(L, "disc_give")
  /\ UNCHANGED <<hwVars, queue, phase, cbMsg, job, evt, inports, ghost,
                 dispVars, connLog, mutex, prog>>

\* /factory_reset line 301
DiscGive ==
  /\ Running /\ At(L, "disc_give")
  /\ mutex' = Given(L)
  /\ Pop(L)
  /\ Goto(L, "run")
  /\ UNCHANGED <<ctlFrame, conn, wire, garbled>>

\* /factory_reset lines 303-305: ESP.restart() with the configuration cleared;
\* setup() then finds no configuration and enters provisioning mode, where no
\* worker and no MQTT session exist
FactoryRestart ==
  /\ Running /\ AtOp(L, "restart")
  /\ mode' = "provision"
  /\ conn' = "down"
  /\ mutex' = "free"
  /\ wire' = "idle"
  /\ inbox' = None
  /\ queue' = <<>>
  /\ pc' = [c \in Ctx |-> IF c = L THEN "portal" ELSE "none"]
  /\ prog' = [c \in Ctx |-> <<>>]
  /\ phase' = "http"
  /\ cbMsg' = None
  /\ job' = None
  /\ evt' = NoEvt
  /\ inports' = RunInPorts
  /\ nMsgs' = 0 /\ rx' = <<>> /\ deq' = <<>> /\ active' = {} /\ sent' = 0
  /\ broker' = BrokerLoss(broker)
  /\ connLog' = LogClose(connLog)
  /\ UNCHANGED <<queueCreated, mutexCreated, tools, garbled, dispVars>>

\* loop() lines 553-558: provisioning mode only serves the captive portal
Portal ==
  /\ mode = "provision"
  /\ UNCHANGED vars

(***************************************************************************)
(* Control loop: one iteration of loop() in runtime mode                   *)
(***************************************************************************)
LoopIdle == Running /\ At(L, "run") /\ prog[L] = <<>>

\* loop() line 561: server.handleClient() serves at most one request
LoopHttp(reqs) ==
  /\ LoopIdle /\ phase = "http"
  /\ \E r \in reqs :
       prog' = [prog EXCEPT ![L] = IF r = "none" THEN <<>> ELSE HttpHandler(r)]
  /\ phase' = "mqtt"
  /\ UNCHANGED <<hwVars, conn, mutex, wire, garbled, inbox, queue, pc, cbMsg,
                 job, evt, inports, ghost, dispVars, obsVars>>

\* the same never calling mqttConnect again
LoopMqttNoRetry(dues) ==
  /\ LoopIdle /\ phase = "mqtt"
  /\ conn' = ConnAfterCheck
  /\ IF ~IsConnected
     THEN prog' = [prog EXCEPT ![L] = <<>>]
     ELSE \E st \in dues, an \in dues :
            prog' = [prog EXCEPT ![L] =
                       <<MLoopOp>>
                       \o (IF st THEN publishStatus(TRUE) ELSE <<>>)
                       \o (IF an THEN publishAnnounce \o publishPortsAnnounce
                                 ELSE <<>>)]
  /\ phase' = "tick"
  /\ UNCHANGED <<hwVars, mutex, wire, garbled, inbox, queue, pc, cbMsg, job,
                 evt, inports, ghost, dispVars, obsVars>>

\* loop() lines 597-611: reconnect when due, else mqttLoopSafe and the
\* periodic publishes that are due (`now` is read at the top of loop())
LoopMqtt(dues) ==
  /\ LoopIdle /\ phase = "mqtt"
  /\ conn' = ConnAfterCheck
  /\ IF ~IsConnected
     THEN \E due \in BOOLEAN :
            prog' = [prog EXCEPT ![L] = IF due THEN <<ConnOp>> ELSE <<>>]
     ELSE \E st \in dues, an \in dues :
            prog' = [prog EXCEPT ![L] =
                       <<MLoopOp>>
                       \o (IF st THEN publishStatus(TRUE) ELSE <<>>)
                       \o (IF an THEN publishAnnounce \o publishPortsAnnounce
                                 ELSE <<>>)]
  /\ phase' = "tick"
  /\ UNCHANGED <<hwVars, mutex, wire, garbled, inbox, queue, pc, cbMsg, job,
                 evt, inports, ghost, dispVars, obsVars>>

\* loop() lines 614-616: g_portRegistry.tickAll(now); an OutPort's tick may
\* call port_publish_data
LoopTick(pubs) ==
  /\ LoopIdle /\ phase = "tick"
  /\ \E p \in pubs :
       prog' = [prog EXCEPT ![L] = IF p THEN port_publish_data ELSE <<>>]
  /\ phase' = "http"
  /\ connLog' = LogClose(connLog)
  /\ UNCHANGED <<hwVars, conn, mutex, wire, garbled, inbox, queue, pc, cbMsg,
                 job, evt, inports, ghost, dispVars, broker>>

(***************************************************************************)
(* Worker: ToolWorkerTask                                                  *)
(***************************************************************************)
wFrame == <<hwVars, conn, mutex, wire, garbled, inbox, phase, cbMsg, inports,
            nMsgs, rx, dispVars, obsVars>>

\* line 408: xQueueReceive(g_toolJobQueue, &job, portMAX_DELAY)
WorkerReceiveAnytime ==
  /\ Running /\ pc[W] \in {"recv", "invoke"} /\ queueCreated /\ queue # <<>>
  /\ job' = Head(queue)
  /\ queue' = Tail(queue)
  /\ deq' = Append(deq, Head(queue).id)
  /\ active' = active \cup {Head(queue).id}
  /\ sent' = 0
  /\ Goto(W, "parse")
  /\ UNCHANGED <<wFrame, prog, evt>>

WorkerReceive ==
  /\ Running /\ At(W, "recv") /\ queueCreated /\ queue # <<>>
  /\ job' = Head(queue)
  /\ queue' = Tail(queue)
  /\ deq' = Append(deq, Head(queue).id)
  /\ active' = active \cup {Head(queue).id}
  /\ sent' = 0
  /\ Goto(W, "parse")
  /\ UNCHANGED <<wFrame, prog, evt>>

\* line 408 with g_toolJobQueue == nullptr: xQueueReceive asserts on the null
\* handle (or faults reading through it); either way the chip panics and
\* reboots, and setup() runs again
WorkerPanic ==
  /\ Running /\ At(W, "recv") /\ ~queueCreated
  /\ \E q \in BOOLEAN, m \in BOOLEAN, cn \in {"up", "down"} : Boot(q, m, cn)

\* lines 412-417: deserializeJson; on error `continue`
WorkerParseAnyway ==
  /\ Running /\ At(W, "parse")
  /\ Goto(W, "dispatch")
  /\ UNCHANGED <<wFrame, sent, queue, prog, evt, deq, job, active>>

WorkerParse ==
  /\ Running /\ At(W, "parse")
  /\ IF job.body.json
     THEN Goto(W, "dispatch") /\ UNCHANGED <<job, active>>
     ELSE Goto(W, "recv") /\ job' = None /\ active' = active \ {job.id}
  /\ UNCHANGED <<wFrame, sent, queue, prog, evt, deq>>

\* the events publish of line 449 for the Job in hand
EventsPubTwice == <<Pub("events", FALSE, job.id), Pub("events", FALSE, job.id)>>
EventsPub == <<Pub("events", FALSE, job.id)>>

\* line 424 up to the call of target->invoke (registry.cpp line 48); when no
\* tool is invoked dispatch returns at once and the worker goes on to publish
WorkerDispatchGuarded ==
  /\ Running /\ At(W, "dispatch")
  /\ CanTake
  /\ LET r == Dispatch(tools, job.body, CHOOSE o \in RunOutcomes : TRUE)
     IN IF r.invoked # <<>>
        THEN Goto(W, "invoke") /\ mutex' = Taken(W) /\ UNCHANGED <<evt, prog>>
        ELSE /\ evt' = r
             /\ prog' = [prog EXCEPT ![W] = EventsPub]
             /\ Goto(W, "run")
             /\ UNCHANGED mutex
  /\ UNCHANGED <<hwVars, conn, wire, garbled, inbox, phase, cbMsg, inports,
                 nMsgs, rx, dispVars, obsVars, sent, queue, job, deq, active>>

WorkerDispatch ==
  /\ Running /\ At(W, "dispatch")
  /\ LET r == Dispatch(tools, job.body, CHOOSE o \in RunOutcomes : TRUE)
     IN IF r.invoked # <<>>
        THEN Goto(W, "invoke") /\ UNCHANGED <<evt, prog>>
        ELSE /\ evt' = r
             /\ prog' = [prog EXCEPT ![W] = EventsPub]
             /\ Goto(W, "run")
  /\ UNCHANGED <<wFrame, sent, queue, job, deq, active>>

\* the tool's invoke returns (it need not: no step is forced); lines 424-447
WorkerToolReturn ==
  /\ Running /\ At(W, "invoke")
  /\ \E o \in RunOutcomes : evt' = Dispatch(tools, job.body, o)
  /\ prog' = [prog EXCEPT ![W] = EventsPub]
  /\ Goto(W, "run")
  /\ UNCHANGED <<wFrame, sent, queue, job, deq, active>>

\* lines 450-452: end of the iteration, back to xQueueReceive
WorkerDone ==
  /\ Running /\ At(W, "run") /\ prog[W] = <<>> /\ job.id # 0
  /\ job' = None
  /\ evt' = NoEvt
  /\ active' = active \ {job.id}
  /\ Goto(W, "recv")
  /\ UNCHANGED <<wFrame, sent, queue, prog, deq>>

(***************************************************************************)
(* Specifications                                                          *)
(***************************************************************************)
WorkerNext ==
  \/ WorkerReceive
  \/ WorkerPanic
  \/ WorkerParse
  \/ WorkerDispatch
  \/ WorkerToolReturn
  \/ WorkerDone
  \/ PubCheck(W)
  \/ PubTake(W)
  \/ PubWrite1(W)
  \/ PubWrite2(W)
  \/ PubGive(W)

LoopCalls ==
  \/ CheckConnected(L)
  \/ PubCheck(L)
  \/ PubTake(L)
  \/ PubWrite1(L)
  \/ PubWrite2(L)
  \/ PubGive(L)
  \/ LoopCheck
  \/ LoopTake
  \/ LoopRun
  \/ Callback
  \/ LoopGive
  \/ ConnCheck
  \/ ConnSetServer
  \/ ConnTake
  \/ ConnDo
  \/ ConnFail
  \/ ConnSubscribe
  \/ ConnGive

\* the whole firmware in runtime mode, with every HTTP request, periodic
\* publish and OutPort publish possible
Next ==
  \/ \E b \in RunPayloads, n \in RunLens : Deliver("cmd", n, b, MaxMsgs)
  \/ \E b \in RunSets : Deliver("ports/set", 32, b, MaxMsgs)
  \/ ConnDrop
  \/ LoopHttp(HttpRequests \cup {"none"})
  \/ LoopMqtt(BOOLEAN)
  \/ LoopTick(BOOLEAN)
  \/ LoopCalls
  \/ DiscTake
  \/ DiscDo
  \/ DiscGive
  \/ FactoryRestart
  \/ Portal
  \/ WorkerNext

Spec == Init /\ [][Next]_vars

\* the firmware with no HTTP request, no periodic or OutPort publish and a
\* stable link, under a burst of command packets of every size class
NextQueue ==
  \/ \E b \in QueuePayloads, n \in QueueLens : Deliver("cmd", n, b, MaxBurst)
  \/ LoopHttp({"none"})
  \/ LoopMqtt({FALSE})
  \/ LoopTick({FALSE})
  \/ LoopCalls
  \/ WorkerNext

SpecQueue == Init /\ [][NextQueue]_vars

\* the firmware with a stable link receiving packets on the command topic, on
\* the port-set topic (well-formed records, records lacking a member,
\* unparsable payloads) and on a topic it has no handler for
IngressSets ==
  {SetBody(TRUE, "var_a", 1), SetBody(TRUE, "var_x", 1),
   SetBody(FALSE, "var_a", 1), SetBodyBare("var_a"), SetBody(TRUE, "", 1)}

NextIngress ==
  \/ \E b \in RunPayloads, n \in RunLens : Deliver("cmd", n, b, MaxIn)
  \/ \E b \in IngressSets : Deliver("ports/set", 32, b, MaxIn)
  \/ \E b \in RunPayloads : Deliver("events", 32, b, MaxIn)
  \/ LoopHttp({"none"})
  \/ LoopMqtt({FALSE})
  \/ LoopTick({FALSE})
  \/ LoopCalls
  \/ WorkerNext

SpecIngress == Init /\ [][NextIngress]_vars

\* the firmware with a stable link and no other traffic, handling commands of
\* every kind the worker tells apart
NextWorker ==
  \/ \E b \in WorkerPayloads, n \in RunLens : Deliver("cmd", n, b, MaxJobs)
  \/ LoopHttp({"none"})
  \/ LoopMqtt({FALSE})
  \/ LoopTick({FALSE})
  \/ LoopCalls
  \/ WorkerNext

SpecWorker == Init /\ [][NextWorker]_vars

\* the steps of the control loop (loopTask). It and the worker task are both
\* created with priority 1 (xTaskCreate line 532; the Arduino core's
\* loopTask), and FreeRTOS time-slices ready tasks of equal priority, so the
\* control loop, whenever it can take a step, eventually takes one even if
\* the worker never yields.
LoopStall ==
  \/ LoopHttp({"none"})
  \/ LoopMqtt(BOOLEAN)
  \/ LoopTick(BOOLEAN)
  \/ LoopCalls

\* the worker when the tool's invoke never returns: the steps of
\* ToolWorkerTask up to the call of target->invoke
WorkerStall ==
  \/ WorkerReceive
  \/ WorkerParse
  \/ WorkerDispatch

\* a boot in which the job queue was created (without it the worker never
\* gets as far as an invocation)
InitStall == Init /\ queueCreated

\* the firmware with a tool that never returns, an unreliable link, periodic
\* and OutPort publishes, and command and port-set traffic
NextStall ==
  \/ \E b \in StallPayloads, n \in RunLens : Deliver("cmd", n, b, MaxStall)
  \/ \E b \in RunSets : Deliver("ports/set", 32, b, MaxStall)
  \/ ConnDrop
  \/ LoopStall
  \/ WorkerStall

SpecStall == InitStall /\ [][NextStall]_vars /\ WF_vars(LoopStall)

\* a boot with the broker followed: a broker that has never seen the device
\* when setup()'s connect attempt failed, the session setup() opened when it
\* succeeded
InitBroker ==
  /\ InitCore
  /\ broker = IF conn = "up" THEN BrokerSetup(BrokerFresh) ELSE BrokerFresh
  /\ connLog = LogClosed

\* the whole firmware in runtime mode with every HTTP request and periodic
\* publish possible, an unreliable link and command traffic
NextBroker ==
  \/ \E b \in RunPayloads, n \in RunLens : Deliver("cmd", n, b, MaxCmds)
  \/ ConnDrop
  \/ LoopHttp(HttpRequests \cup {"none"})
  \/ LoopMqtt(BOOLEAN)
  \/ LoopTick({FALSE})
  \/ LoopCalls
  \/ DiscTake
  \/ DiscDo
  \/ DiscGive
  \/ FactoryRestart
  \/ Portal
  \/ WorkerNext

SpecBroker == InitBroker /\ [][NextBroker]_vars

\* the steps of the control loop with no HTTP request and no OutPort
LoopRun0 ==
  \/ LoopHttp({"none"})
  \/ LoopMqtt(BOOLEAN)
  \/ LoopTick({FALSE})
  \/ LoopCalls

\* the steps of ToolWorkerTask once the queue exists
WorkerJob ==
  \/ WorkerReceive
  \/ WorkerParse
  \/ WorkerDispatch
  \/ WorkerToolReturn
  \/ WorkerDone
  \/ PubCheck(W)
  \/ PubTake(W)
  \/ PubWrite1(W)
  \/ PubWrite2(W)
  \/ PubGive(W)

\* loop() lines 598-601 find the reconnect interval elapsed with Wi-Fi up
ReconnectDue == LoopMqtt(BOOLEAN) /\ prog'["loop"] = <<ConnOp>>
\* mqtt.connect returns true
ConnectOk == ConnDo /\ conn' = "up"

InitReconnect == InitBroker /\ queueCreated

\* the firmware with an unreliable link and a broker that may refuse
\* connections, and command traffic for the worker to answer
NextReconnect ==
  \/ \E b \in RunPayloads, n \in RunLens : Deliver("cmd", n, b, MaxCmds)
  \/ ConnDrop
  \/ LoopRun0
  \/ WorkerJob

\* Scheduling: the control loop and the worker are FreeRTOS tasks of equal
\* priority that are time-sliced, so each takes a step when it can.  millis()
\* grows with every iteration of loop() (vTaskDelay(1), line 616), so with
\* Wi-Fi up the test of line 598 succeeds after finitely many iterations.
\* A fair broker accepts one of infinitely many connect attempts.
SpecReconnect ==
  /\ InitReconnect
  /\ [][NextReconnect]_vars
  /\ WF_vars(LoopRun0)
  /\ WF_vars(WorkerJob)
  /\ SF_vars(ReconnectDue)
  /\ SF_vars(ConnectOk)

\* setup() lines 532-541: xTaskCreate did not return pdPASS; setup() logs the
\* failure and returns, and loop() runs with no ToolWorker task
TaskCreateFailed ==
  /\ Running /\ At(W, "recv") /\ nMsgs = 0 /\ LoopIdle /\ phase = "http"
  /\ Goto(W, "none")
  /\ UNCHANGED <<wFrame, sent, queue, prog, evt, deq, job, active>>

\* a boot in which setup() created the queue and the guard
InitLive == Init /\ queueCreated /\ mutexCreated

\* the firmware on a link that may be lost for good, with Jobs of both kinds
\* (a command for a tool of the image, an unparsable payload) queued for a
\* worker whose creation may have failed
NextLive ==
  \/ \E b \in QueuePayloads, n \in RunLens : Deliver("cmd", n, b, MaxLive)
  \/ TaskCreateFailed
  \/ ConnDrop
  \/ LoopHttp({"none"})
  \/ LoopMqtt({FALSE})
  \/ LoopTick({FALSE})
  \/ LoopCalls
  \/ WorkerJob

\* Scheduling: the worker and the control loop are FreeRTOS tasks of equal
\* priority that are time-sliced, so each takes a step when it can; every
\* tool invocation returns (WorkerToolReturn is a step of WorkerJob).  The
\* control loop gives the guard back before vTaskDelay(1) (line 616), during
\* which the worker runs with the guard free, so a worker waiting in
\* xSemaphoreTake gets the guard.
SpecLive ==
  /\ InitLive
  /\ [][NextLive]_vars
  /\ WF_vars(LoopRun0)
  /\ WF_vars(WorkerJob)
  /\ SF_vars(PubTake(W))

(***************************************************************************)
(* The registry on its own: registration at startup, then dispatch         *)
(***************************************************************************)
ToolNames    == {"A", "a", "B"}
\* invocation requests for registered and unregistered names, with and
\* without a request id; and documents of another type or with no type
DispatchCmds ==
  {CmdBody(TRUE, "device.command", tl, "r1") : tl \in {"A", "a", "B", "C"}}
  \cup {CmdBody(TRUE, "device.command", tl, "") : tl \in {"A", "C"}}
  \cup {CmdBody(TRUE, ty, "A", "r1") : ty \in {"device.other", ""}}

\* a device at rest: no transport activity, empty call records
InitIdle ==
  /\ queueCreated = TRUE
  /\ mutexCreated = TRUE
  /\ mode = "run"
  /\ conn = "down"
  /\ mutex = "free"
  /\ wire = "idle"
  /\ garbled = FALSE
  /\ inbox = None
  /\ queue = <<>>
  /\ pc = [c \in Ctx |-> IF c = "loop" THEN "run" ELSE "recv"]
  /\ prog = [c \in Ctx |-> <<>>]
  /\ phase = "http"
  /\ cbMsg = None
  /\ job = None
  /\ evt = NoEvt
  /\ nMsgs = 0
  /\ rx = <<>>
  /\ deq = <<>>
  /\ active = {}
  /\ sent = 0
  /\ dCmd = NoCmd
  /\ dRes = NoEvt
  /\ dOut = NoOut
  /\ dInit = NoInit
  /\ pOp = NoPortOp
  /\ broker = BrokerOff
  /\ connLog = LogOff
  /\ pa = NoPatch
  /\ rd = NoRid
  /\ ev = EvOff

InitDispatch ==
  /\ InitIdle
  /\ tm = TimeOff
  /\ tools = <<>>
  /\ inports = RunInPorts
  /\ outports = RunOutPorts

notRegistry == <<queueCreated, mutexCreated, mode, conn, mutex, wire, garbled,
                 inbox, queue, pc, prog, phase, cbMsg, job, evt, inports,
                 ghost, pOp, tm, obsVars, outports, auxVars>>

\* ToolRegistry::add; the records of earlier calls are dropped
RegistryAdd(name) ==
  /\ Len(tools) < MaxTools
  /\ tools' = Append(tools, name)
  /\ dCmd' = NoCmd /\ dRes' = NoEvt /\ dOut' = NoOut /\ dInit' = NoInit
  /\ UNCHANGED notRegistry

\* one call of ToolRegistry::initAll (setup() line 487); the record of an
\* earlier dispatch is dropped, so a recorded dispatch is a later one
InitAll(res) ==
  /\ ~dInit.done
  /\ LET r == InitAllResult(tools, res)
     IN dInit' = [done |-> TRUE, ret |-> r.ok, calls |-> r.calls, res |-> res]
  /\ dCmd' = NoCmd /\ dRes' = NoEvt /\ dOut' = NoOut
  /\ UNCHANGED <<notRegistry, tools>>

\* one call of ToolRegistry::dispatch
DispatchCall(cmd, out) ==
  /\ dCmd' = cmd
  /\ dOut' = out
  /\ dRes' = Dispatch(tools, cmd, out)
  /\ UNCHANGED <<notRegistry, tools, dInit>>

NextDispatch ==
  \/ \E n \in ToolNames : RegistryAdd(n)
  \/ \E res \in [1..Len(tools) -> BOOLEAN] : InitAll(res)
  \/ \E cmd \in DispatchCmds, out \in ToolOutcomes : DispatchCall(cmd, out)

SpecDispatch == InitDispatch /\ [][NextDispatch]_vars

(***************************************************************************)
(* The Port registry on its own: createInPort and handleInPortSet called   *)
(* in any order with any names (SpecPorts)                                 *)
(***************************************************************************)
PortNames  == {"a", "b"}
SetNames   == {"a", "b", "c"}
PortTypes  == {"float", "bool"}
PortValues == {1, 2}
OutNames   == {"impact_live", "o2", "null"}
TickTimes  == {1, 2}
AnnTools   == {"A", "B"}

InitPorts ==
  /\ InitIdle
  /\ tm = TimeOff
  /\ tools = <<>>
  /\ inports = <<>>
  /\ outports = <<>>

notPorts == <<hwVars, conn, mutex, wire, garbled, inbox, queue, pc, prog,
              phase, cbMsg, job, evt, ghost, dCmd, dRes, dOut, dInit, tm,
              obsVars, auxVars>>

\* the record of a registry call: the call, the InPorts before it, and the
\* announce documents built since the last registration (prev: the one
\* before this call's, when this call builds one)
PortRec(op, name, type, value, calls) ==
  [pOp EXCEPT !.op = op, !.name = name, !.dataType = type, !.value = value,
              !.before = inports, !.calls = calls, !.prev = NoAnn]

\* one call of PortRegistry::createInPort
PortCreate(name, type) ==
  /\ Len(inports) < MaxPorts
  /\ inports' = CreateInPort(inports, name, type)
  /\ pOp' = [PortRec("create", name, type, 0, <<>>)
               EXCEPT !.creates = @ + 1, !.lastPorts = NoAnn]
  /\ UNCHANGED <<notPorts, outports>>

\* one call of PortRegistry::handleInPortSet
PortSet(name, value) ==
  /\ inports' = HandleInPortSet(inports, name, value)
  /\ pOp' = PortRec("set", name, "", value, <<>>)
  /\ UNCHANGED <<notPorts, outports>>

\* one call of PortRegistry::addOutPort; the pointer may be null
PortAddOut(p) ==
  /\ Len(outports) < MaxOuts
  /\ outports' = AddOutPort(outports, p)
  /\ pOp' = [PortRec("addOut", p, "", 0, <<>>) EXCEPT !.lastPorts = NoAnn]
  /\ UNCHANGED <<notPorts, inports>>

\* one call of PortRegistry::tickAll, as loop() line 614 makes it
PortTick(now) ==
  /\ pOp' = PortRec("tick", "", "", now, TickAll(outports, now))
  /\ UNCHANGED <<notPorts, inports, outports>>

NextPorts ==
  \/ \E n \in PortNames, t \in PortTypes : PortCreate(n, t)
  \/ \E n \in SetNames, v \in PortValues : PortSet(n, v)

SpecPorts == InitPorts /\ [][NextPorts]_vars

\* the OutPort side of the registry: register_ports has created the InPorts,
\* addOutPort and tickAll are called in any order (SpecOut)
InitOut ==
  /\ InitIdle
  /\ tm = TimeOff
  /\ tools = <<>>
  /\ inports = CreateInPort(<<>>, "a", "float")
  /\ outports = <<>>

\* one call of ToolRegistry::add
ToolAdd(name) ==
  /\ Len(tools) < MaxTools
  /\ tools' = Append(tools, name)
  /\ pOp' = [PortRec("addTool", name, "", 0, <<>>) EXCEPT !.lastTools = NoAnn]
  /\ UNCHANGED <<queueCreated, mutexCreated, mode, conn, mutex, wire, garbled,
                 inbox, queue, pc, prog, phase, cbMsg, job, evt, inports,
                 ghost, dCmd, dRes, dOut, dInit, tm, obsVars, outports,
                 auxVars>>

\* one call of PortRegistry::buildAnnounce, at wall-clock time stamp
PortAnnounce(stamp) ==
  /\ pOp' = [PortRec("announcePorts", "", "", 0, <<>>)
               EXCEPT !.prev = pOp.lastPorts,
                      !.lastPorts = PortsBuildAnnounce(outports, inports, stamp)]
  /\ UNCHANGED <<notPorts, inports, outports>>

\* one call of ToolRegistry::buildAnnounce
ToolAnnounce ==
  /\ pOp' = [PortRec("announceTools", "", "", 0, <<>>)
               EXCEPT !.prev = pOp.lastTools,
                      !.lastTools = ToolsBuildAnnounce(tools)]
  /\ UNCHANGED <<notPorts, inports, outports>>

NextOut ==
  \/ \E p \in OutNames : PortAddOut(p)
  \/ \E now \in TickTimes : PortTick(now)
  \/ PortSet("a", 1)
  \/ \E n \in AnnTools : ToolAdd(n)
  \/ \E stamp \in TickTimes : PortAnnounce(stamp)
  \/ ToolAnnounce

SpecOut == InitOut /\ [][NextOut]_vars

(***************************************************************************)
(* The asset URL patch on its own (SpecPatch).  A url is the sequence of   *)
(* its characters; an asset may have no url.  An Observation is what an    *)
(* ObservationBuilder holds: `used` bytes of its StaticJsonDocument<2048>  *)
(* (slots, and the strings it copied), which serialize to `len`            *)
(* characters.  The builder keeps the strings given as const char* (keys,  *)
(* literals, urls) by pointer.  The patch parses the serialized            *)
(* Observation into another StaticJsonDocument<2048>, which needs the same *)
(* slots and copies every string; of the strings only the urls are         *)
(* counted.  A document that does not fit is not parsed (NoMemory).        *)
(* PubSubClient publishes a payload only if the packet fits its buffer.    *)
(***************************************************************************)
Asset(h, u)  == [kind |-> "image", hasUrl |-> h, url |-> u]
PatchUrls    == {<<"/", "a">>, <<"h", ":", "/", "a">>, <<>>}
PatchAssets  == {Asset(TRUE, u) : u \in PatchUrls} \cup {Asset(FALSE, <<>>)}
PatchBases   == {<<"h", ":">>, <<>>}
PatchLists   == {<<>>} \cup {<<a>> : a \in PatchAssets}
                  \cup {<<a, b>> : a \in PatchAssets, b \in PatchAssets}
\* bytes of the builder's document in use: a small Observation, a document
\* filled to its capacity
PatchUsed    == {BuilderCap \div 8, BuilderCap}
\* length of the serialized Observation: one that fits the transport's
\* buffer, one that does not
PatchLens    == {PubCap \div 2, PubCap}
PatchDoc(n, l, as) ==
  [ok |-> TRUE, rid |-> "r1", assets |-> as, len |-> l, used |-> n]

RECURSIVE StringBytes(_)
\* the bytes the copies of the urls of an asset list take (each with its NUL)
StringBytes(as) ==
  IF as = <<>> THEN 0
  ELSE (IF Head(as).hasUrl THEN Len(Head(as).url) + 1 ELSE 0)
         + StringBytes(Tail(as))

\* deserializeJson(tmp, eventsJson) == DeserializationError::Ok
ParseOk(doc) == doc.used + StringBytes(doc.assets) <= PatchCap

\* mqtt.publish(topic, payload, retain): the packet (header, topic, payload)
\* must fit the buffer of mqtt.setBufferSize(2048)
PubFits(doc) == doc.len < PubCap

\* the loop body with the prefix put on every url
PatchUrlAlways(a, base) ==
  IF a.hasUrl THEN Asset(TRUE, base \o a.url) ELSE a

\* const char* url = a["url"] | nullptr;
\* if (url && url[0] == '/') a["url"] = http_base + String(url);
PatchUrl(a, base) ==
  IF a.hasUrl /\ a.url # <<>> /\ a.url[1] = "/"
  THEN Asset(TRUE, base \o a.url)
  ELSE a

RECURSIVE PatchLoop(_, _)
\* for (JsonObject a : assets) { ... }
PatchLoop(as, base) ==
  IF as = <<>> THEN <<>>
  ELSE <<PatchUrl(Head(as), base)>> \o PatchLoop(Tail(as), base)

\* ToolWorkerTask lines 431-447: eventsJson after the patch
WorkerPatch(doc, base) ==
  IF ParseOk(doc)
  THEN [ok |-> doc.ok, rid |-> doc.rid,
        assets |-> PatchLoop(doc.assets, base), len |-> doc.len,
        used |-> doc.used]
  ELSE doc

\* MqttObservationEmitter::patchAssetUrls (mqtt_emitter.h lines 23-39)
patchAssetUrls(doc, base) ==
  IF ParseOk(doc)
  THEN [ok |-> doc.ok, rid |-> doc.rid,
        assets |-> PatchLoop(doc.assets, base), len |-> doc.len,
        used |-> doc.used]
  ELSE doc

notPatch == <<hwVars, conn, mutex, wire, garbled, inbox, queue, pc, prog,
              phase, cbMsg, job, evt, inports, ghost, dCmd, dRes, dOut, dInit,
              pOp, tm, obsVars, outports, rd, ev>>

InitPatch ==
  /\ InitIdle
  /\ tm = TimeOff
  /\ tools = <<>>
  /\ inports = RunInPorts
  /\ outports = RunOutPorts

\* the worker patches the eventsJson of a dispatch and publishes it
PatchWorker(doc, base) ==
  /\ pa' = [in |-> doc, out |-> WorkerPatch(doc, base), path |-> "worker",
            base |-> base, published |-> PubFits(doc)]
  /\ UNCHANGED notPatch

\* MqttObservationEmitter::emit patches ob.toJson() and publishes it
PatchEmit(doc, base) ==
  /\ pa' = [in |-> doc, out |-> patchAssetUrls(doc, base),
            path |-> "emitter", base |-> base, published |-> PubFits(doc)]
  /\ UNCHANGED notPatch

NextPatch ==
  \/ \E n \in PatchUsed, l \in PatchLens, as \in PatchLists,
        b \in PatchBases : PatchWorker(PatchDoc(n, l, as), b)
  \/ \E n \in PatchUsed, l \in PatchLens, as \in PatchLists,
        b \in PatchBases : PatchEmit(PatchDoc(n, l, as), b)

SpecPatch == InitPatch /\ [][NextPatch]_vars

(***************************************************************************)
(* The request ids dispatch generates (SpecRid).  millis() is a counter of *)
(* TimeBits bits; a generated id is the number String(millis(),HEX)        *)
(* renders.  The worker dispatches one command after another; time may or  *)
(* may not pass between two dispatches.                                    *)
(***************************************************************************)
\* String(millis(),HEX): the rendering is one-to-one, the id is the number
GenRidAt(ms) == ms

notRid == <<hwVars, conn, mutex, wire, garbled, inbox, queue, pc, prog,
            phase, cbMsg, job, evt, inports, ghost, dCmd, dRes, dOut, dInit,
            pOp, tm, obsVars, outports, pa, ev>>

\* millis() advances by one
RidPass ==
  /\ rd' = [rd EXCEPT !.clock = TAdd(rd.clock, 1)]
  /\ UNCHANGED notRid

\* registry.cpp lines 37-38 for the next command the worker dequeued:
\* ob.setRequestId(rid.length() ? rid : String(millis(),HEX))
RidDispatch(cmd) ==
  /\ rd.cmds < MaxRids
  /\ IsCommand(cmd)
  /\ rd' = IF cmd.rid # ""
            THEN [rd EXCEPT !.cmds = @ + 1]
            ELSE [rd EXCEPT !.prev = rd.cur, !.cur = GenRidAt(rd.clock),
                            !.cmds = @ + 1]
  /\ UNCHANGED notRid

NextRid ==
  \/ RidPass
  \/ \E cmd \in DispatchCmds : RidDispatch(cmd)

SpecRid == InitDispatch /\ [][NextRid]_vars

(***************************************************************************)
(* The event tool digital_event (SpecEvent).  loop() samples millis() once *)
(* at its top, mqtt.loop() delivers at most one command, whose dispatch    *)
(* runs invoke in the callback, and registry_tick_all passes the sample to *)
(* tick.  ev.lag is the time since the sample; ev.el the time since the    *)
(* instant last_emit_ms_ names (the subscribe, or the sample of the pass   *)
(* that emitted), counted up to Wrap.                                      *)
(***************************************************************************)
EvArgs(hasOp, op, hasInterval, interval) ==
  [op |-> op, hasOp |-> hasOp, hasInterval |-> hasInterval,
   interval |-> interval]

EvIntervals == {2, 5}

\* op "null" stands for an op member that is not a string
EvArgSets ==
  {EvArgs(TRUE, "subscribe", FALSE, 0), EvArgs(FALSE, "", FALSE, 0),
   EvArgs(TRUE, "unsubscribe", FALSE, 0), EvArgs(TRUE, "toggle", FALSE, 0),
   EvArgs(TRUE, "null", FALSE, 0), EvArgs(FALSE, "", TRUE, 2)}
  \cup {EvArgs(TRUE, "subscribe", TRUE, n) : n \in EvIntervals}

EvRec(at, clock, now, lag, on, interval, last, el, res) ==
  [active |-> on, res |-> res, at |-> at, clock |-> clock, now |-> now,
   lag |-> lag, interval_ms |-> interval, last_emit_ms |-> last, el |-> el]

\* ExampleDigitalEvent::onSubscribe
onSubscribe(e, args) ==
  EvRec("tick", e.clock, e.now, e.lag, TRUE,
        IF args.hasInterval THEN args.interval ELSE DefaultInterval,
        e.clock, 0, "subscribed")

\* ExampleDigitalEvent::onUnsubscribe
onUnsubscribe(e, args) ==
  EvRec("tick", e.clock, e.now, e.lag, FALSE, e.interval_ms, e.last_emit_ms,
        e.el, "unsubscribed")

EvError(e, code) ==
  EvRec("tick", e.clock, e.now, e.lag, e.active, e.interval_ms,
        e.last_emit_ms, e.el, code)

\* EventTool::invoke
EventInvoke(e, args) ==
  IF ~args.hasOp THEN EvError(e, "bad_request")
  ELSE IF args.op = "null" THEN EvError(e, "bad_request")
  ELSE IF args.op = "subscribe" THEN onSubscribe(e, args)
  ELSE IF args.op = "unsubscribe" THEN onUnsubscribe(e, args)
  ELSE EvError(e, "bad_op")

\* ExampleDigitalEvent::tick(now_ms)
EventTick(e) ==
  IF ~e.active
  THEN EvRec("top", e.clock, e.now, e.lag, e.active, e.interval_ms,
             e.last_emit_ms, e.el, "quiet")
  ELSE IF TSub(e.now, e.last_emit_ms) < e.interval_ms
  THEN EvRec("top", e.clock, e.now, e.lag, e.active, e.interval_ms,
             e.last_emit_ms, e.el, "quiet")
  ELSE EvRec("top", e.clock, e.now, e.lag, e.active, e.interval_ms,
             e.now, e.lag, "emit")

notEv == <<hwVars, conn, mutex, wire, garbled, inbox, queue, pc, prog,
           phase, cbMsg, job, evt, inports, ghost, dCmd, dRes, dOut, dInit,
           pOp, tm, obsVars, outports, pa, rd>>

\* millis() advances by one; a pass of loop() lasts at most MaxLag
EvPass ==
  /\ ev.at = "top" \/ ev.lag < MaxLag
  /\ ev' = EvRec(ev.at, TAdd(ev.clock, 1), ev.now,
                 IF ev.at = "top" THEN ev.lag ELSE ev.lag + 1,
                 ev.active, ev.interval_ms, ev.last_emit_ms,
                 Elapse(ev.el, 1, Wrap), ev.res)
  /\ UNCHANGED notEv

\* loop(): uint32_t now = millis()
EvLoop ==
  /\ ev.at = "top"
  /\ ev' = EvRec("mqtt", ev.clock, ev.clock, 0, ev.active, ev.interval_ms,
                 ev.last_emit_ms, ev.el, ev.res)
  /\ UNCHANGED notEv

\* mqtt.loop() delivers a command for digital_event: onMqttMessage
\* dispatches it, the registry calls invoke
EvInvoke(args) ==
  /\ ev.at = "mqtt"
  /\ ev' = EventInvoke(ev, args)
  /\ UNCHANGED notEv

\* mqtt.loop() has nothing to deliver, or the transport is down
EvIdle ==
  /\ ev.at = "mqtt"
  /\ ev' = EvRec("tick", ev.clock, ev.now, ev.lag, ev.active, ev.interval_ms,
                 ev.last_emit_ms, ev.el, ev.res)
  /\ UNCHANGED notEv

\* registry_tick_all(registry, now)
EvTick ==
  /\ ev.at = "tick"
  /\ ev' = EventTick(ev)
  /\ UNCHANGED notEv

NextEvent ==
  \/ EvPass
  \/ EvLoop
  \/ \E args \in EvArgSets : EvInvoke(args)
  \/ EvIdle
  \/ EvTick

SpecEvent == InitDispatch /\ [][NextEvent]_vars

(***************************************************************************)
(* The timing of loop(): millis(), `now`, lastStatusMs, lastMqttTry        *)
(* (SpecTime).  Time passes inside the network calls (mqtt.connect,        *)
(* mqtt.publish) and in vTaskDelay(1).  Elapsed times are kept alongside   *)
(* the timestamps: sinceOk since the last successful status publish,       *)
(* sinceTry since the last call of mqttConnect, sincePer since the last    *)
(* periodic call of publishStatus.                                         *)
(***************************************************************************)
\* millis() when setup() has finished
BootClocks == {1, ReconnectInterval + 1}
\* ticks a network call or vTaskDelay(1) may take
CallTicks == {0, 1}

notTime == <<hwVars, conn, mutex, wire, garbled, inbox, queue, pc, prog,
             phase, cbMsg, job, evt, inports, ghost, dCmd, dRes, dOut, dInit,
             pOp, obsVars, outports, auxVars>>

\* time passes: d ticks
Pass(t, d) == [t EXCEPT !.clock = TAdd(t.clock, d),
                        !.sinceOk = Elapse(t.sinceOk, d, StatusInterval),
                        !.sinceTry = Elapse(t.sinceTry, d, ReconnectInterval),
                        !.sincePer = Elapse(t.sincePer, d, StatusInterval)]

\* publishStatus lines 179-180: bool ok = mqttPublishSafe(...);
\* if (ok) lastStatusMs = millis();   (the publish took d ticks)
PublishStatusAt(t, ok, d) ==
  LET u == Pass(t, d)
  IN IF ok THEN [u EXCEPT !.lastStatusMs = u.clock, !.sinceOk = 0] ELSE u

\* setup(): startRuntime has made the initial mqttConnect() (line 394),
\* which does not touch lastMqttTry; on success it published the status
InitTime ==
  /\ InitIdle
  /\ tools = <<>>
  /\ inports = RunInPorts
  /\ outports = RunOutPorts
  /\ \E c \in BootClocks, u \in BOOLEAN :
       tm = [at |-> "top", clock |-> c, now |-> 0,
             lastStatusMs |-> IF u THEN c ELSE 0,
             lastMqttTry |-> 0, up |-> u,
             sinceOk |-> IF u THEN 0 ELSE StatusInterval,
             sinceTry |-> 0, tryFailed |-> ~u,
             sincePer |-> StatusInterval, perFailed |-> FALSE,
             ev |-> NoEv, gapOk |-> 0]

\* loop() line 550: uint32_t now = millis();
LoopSample ==
  /\ tm.at = "top"
  /\ tm' = [tm EXCEPT !.at = "http", !.now = tm.clock, !.ev = NoEv]
  /\ UNCHANGED notTime

\* loop() line 561: server.handleClient() serves nothing, or /status_now
\* (lines 267-274)
LoopHandleClient ==
  /\ tm.at = "http"
  /\ \/ tm' = [tm EXCEPT !.at = "mqtt", !.ev = NoEv]
     \/ /\ tm.up
        /\ \E ok \in BOOLEAN, d \in CallTicks :
             tm' = [PublishStatusAt(tm, ok, d) EXCEPT
                      !.at = "mqtt",
                      !.ev = [kind |-> "on_demand", gap |-> 0,
                              prevFailed |-> FALSE]]
  /\ UNCHANGED notTime

\* the link to the broker is lost
LinkDrop ==
  /\ tm.at \in {"top", "http", "mqtt", "end"}
  /\ tm.up
  /\ tm' = [tm EXCEPT !.up = FALSE, !.ev = NoEv]
  /\ UNCHANGED notTime

\* loop() lines 597-602: not connected; reconnect when the interval has
\* elapsed since lastMqttTry and Wi-Fi is up
LoopReconnect ==
  /\ tm.at = "mqtt" /\ ~tm.up
  /\ \E wifi \in BOOLEAN :
       IF TSub(tm.now, tm.lastMqttTry) >= ReconnectInterval /\ wifi
       THEN \E ok \in BOOLEAN, d \in CallTicks, pubOk \in BOOLEAN :
              LET t1 == [tm EXCEPT !.lastMqttTry = tm.now, !.sinceTry = 0,
                                   !.tryFailed = ~ok, !.up = ok]
                  t2 == IF ok THEN PublishStatusAt(t1, pubOk, d)
                        ELSE Pass(t1, d)
              IN tm' = [t2 EXCEPT
                          !.at = "end",
                          !.ev = [kind |-> "attempt", gap |-> tm.sinceTry,
                                  prevFailed |-> tm.tryFailed]]
       ELSE tm' = [tm EXCEPT !.at = "end", !.ev = NoEv]
  /\ UNCHANGED notTime

\* loop() lines 603-606: connected; mqttLoopSafe, then the periodic status
\* when the interval has elapsed since lastStatusMs
LoopPeriodic ==
  /\ tm.at = "mqtt" /\ tm.up
  /\ IF TSub(tm.now, tm.lastStatusMs) >= StatusInterval
     THEN \E ok \in BOOLEAN, d \in CallTicks :
            LET t1 == [tm EXCEPT !.sincePer = 0, !.perFailed = ~ok]
            IN tm' = [PublishStatusAt(t1, ok, d) EXCEPT
                        !.at = "end",
                        !.gapOk = tm.sinceOk,
                        !.ev = [kind |-> "periodic", gap |-> tm.sincePer,
                                prevFailed |-> tm.perFailed]]
     ELSE tm' = [tm EXCEPT !.at = "end", !.ev = NoEv]
  /\ UNCHANGED notTime

\* loop() line 616: vTaskDelay(1)
LoopDelay ==
  /\ tm.at = "end"
  /\ \E d \in CallTicks : tm' = [Pass(tm, d) EXCEPT !.at = "top", !.ev = NoEv]
  /\ UNCHANGED notTime

NextTime ==
  \/ LoopSample
  \/ LoopHandleClient
  \/ LinkDrop
  \/ LoopReconnect
  \/ LoopPeriodic
  \/ LoopDelay

SpecTime == InitTime /\ [][NextTime]_vars

(***************************************************************************)
(* Claims                                                                  *)
(***************************************************************************)
Registered(name) == \E i \in 1..Len(tools) : tools[i] = name

\* C1: a device.command naming a registered tool invokes exactly one tool,
\* whose name is character for character the requested one; a name that is
\* not registered (a different case included) invokes no tool, assigns an
\* Observation with ok=false and error.code "unsupported_tool" and returns
\* false.
C1_DispatchExactMatch ==
  dCmd.type = "device.command" =>
    IF Registered(dCmd.tool)
    THEN /\ Len(dRes.invoked) = 1
         /\ tools[dRes.invoked[1]] = dCmd.tool
    ELSE /\ dRes.invoked = <<>>
         /\ dRes.ret = FALSE
         /\ dRes.wrote
         /\ dRes.obs.ok = FALSE
         /\ dRes.obs.err = "unsupported_tool"

\* C1 witness: "A" and "a" are both registered and a command for "a" invoked
\* the second tool only
C1_Witness ==
  /\ tools = <<"A", "a">>
  /\ dCmd.type = "device.command" /\ dCmd.tool = "a"
  /\ dRes.invoked = <<2>>

Other(c) == IF c = L THEN W ELSE L

TouchStep(c) ==
  /\ \/ AtOp(c, "chk") \/ AtOp(c, "pub") \/ AtOp(c, "mloop") \/ AtOp(c, "conn")
     \/ At(c, "conn_setsrv") \/ InOperation(c)
     \/ (c = L /\ LoopIdle /\ phase = "mqtt")
  /\ IF c = L THEN <<pc[L], prog[L], phase>>' # <<pc[L], prog[L], phase>>
              ELSE <<pc[W], prog[W]>>' # <<pc[W], prog[W]>>

\* C3: no context reads or writes the transport handle (connection-state
\* checks and server configuration included) while another context is inside
\* a guarded operation on it; stated for the case that the guard exists.
C3_NoTouchDuringGuarded ==
  [][mutexCreated =>
       \A c \in Ctx : TouchStep(c) => ~InOperation(Other(c))]_vars

\* C4: the guard is owned exactly while its owner is between a take and the
\* matching give, on every path (publish, loop, connect failure, connect
\* success, factory-reset disconnect); so with no guarded operation in
\* progress the guard is free.
C4_GuardReleased ==
  \A c \in Ctx :
    /\ mutex = c => InGuarded(c)
    /\ (mutexCreated /\ InGuarded(c)) => mutex = c

\* C4 witness: the worker waits for the guard while the control loop is on
\* the connect-failure return path, still holding it
C4_Witness ==
  /\ pc[L] = "conn_fail" /\ mutex = L
  /\ pc[W] = "pub_take"

\* C5: no context waits for the guard while owning it (the receive callback,
\* run with the guard held, never takes it), and a context that waits is
\* waiting for an owner that is itself not waiting, so the two contexts are
\* never both blocked on the guard.
C5_NoSelfDeadlock ==
  \A c \in Ctx :
    Waiting(c) => /\ mutex # c
                  /\ mutex = Other(c) => ~Waiting(Other(c))

\* C5 witness: the callback runs under the control loop's guard while the
\* worker waits for the guard
C5_Witness ==
  /\ pc[L] = "cb" /\ mutex = L
  /\ pc[W] = "pub_take"

Count(v) == Cardinality({i \in 1..Len(rx) : rx[i] = v})
AcceptedIds ==
  SelectSeq([i \in 1..Len(rx) |-> i], LAMBDA i : rx[i] = "enq")
QueueIds == [i \in 1..Len(queue) |-> queue[i].id]

\* C6: with the queue created (capacity 4): the Jobs dequeued so far followed
\* by the Jobs still queued are exactly the accepted packets in arrival order
\* (FIFO, nothing queued is ever displaced); and as long as the worker has
\* dequeued nothing, of N acceptable-size packets min(N,4) were accepted and
\* max(N-4,0) dropped.
C6_Backpressure ==
  queueCreated =>
    /\ deq \o QueueIds = AcceptedIds
    /\ Len(queue) <= QueueCap
    /\ deq = <<>> =>
         LET n == Count("enq") + Count("full")
         IN /\ Count("enq") = Min(n, QueueCap)
            /\ Count("full") = Max(n - QueueCap, 0)

\* C6 witness: five acceptable packets arrived before the worker dequeued;
\* the first four were accepted, the fifth dropped, and the worker has since
\* dequeued the four in arrival order
C6_Witness ==
  /\ rx = <<"enq", "enq", "enq", "enq", "full">>
  /\ deq = <<1, 2, 3, 4>>

\* C7: whenever the receive callback has been entered it can complete at
\* once, whatever the state of the queue and of the worker.
C7_EnqueueNonBlocking ==
  pc[L] = "cb" => ENABLED Callback

\* C7 witness: the callback has returned after finding the queue full while
\* the worker is inside a tool invocation
C7_Witness ==
  /\ pc[L] = "loop_give"
  /\ rx # <<>> /\ rx[Len(rx)] = "full"
  /\ pc[W] = "invoke"

CallbackCmdStep ==
  /\ pc[L] = "cb" /\ cbMsg.topic = "cmd"
  /\ pc'[L] = "loop_give"

\* C8: a command payload is rejected as oversize exactly when its length is
\* larger than the Job buffer capacity (768).
C8_OversizeBoundary ==
  [][(CallbackCmdStep /\ queueCreated) =>
       (rx'[cbMsg.id] = "oversize" <=> cbMsg.len > PayloadCap)]_vars

Rejections == {"oversize", "full", "noqueue"}
HeldIds == {queue[i].id : i \in 1..Len(queue)}
             \cup (IF job.id # 0 THEN {job.id} ELSE {})
             \cup {prog[W][i].id : i \in 1..Len(prog[W])}

\* C9: a callback step that rejects a command (oversize, queue full, queue
\* not created) leaves the queue, the worker and the wire exactly as they
\* were; and every Job queued, held by the worker or answered by a pending
\* events publish is an accepted packet, never a rejected one.
C9_RejectNoEffect ==
  /\ [](\A i \in HeldIds : rx[i] = "enq")
  /\ [][(CallbackCmdStep /\ rx'[cbMsg.id] \in Rejections) =>
          /\ queue' = queue
          /\ <<job, evt, deq, active, prog, wire, garbled, inports>>'
               = <<job, evt, deq, active, prog, wire, garbled, inports>>
          /\ pc'[W] = pc[W]]_vars

\* C9 witness: an oversize command was just rejected while Jobs are queued
C9_Witness ==
  /\ pc[L] = "loop_give"
  /\ rx # <<>> /\ rx[Len(rx)] = "oversize"
  /\ Len(queue) >= 2

\* C10: at most one Job is dequeued-and-unfinished at any time, it is the Job
\* the worker holds, and the worker is back at xQueueReceive only with none.
C10_SingleWorker ==
  /\ Cardinality(active) <= 1
  /\ active = (IF job.id # 0 THEN {job.id} ELSE {})
  /\ pc[W] = "recv" => active = {}

\* C10 witness: a tool invocation is in progress while other Jobs wait
C10_Witness ==
  /\ pc[W] = "invoke"
  /\ Len(queue) >= 2
  /\ Len(deq) >= 2

\* C12: dispatch of a document whose type is not "device.command" (another
\* type, or none) returns false, invokes no tool, builds no Observation and
\* does not assign the caller's output string.
C12_NonCommandRejected ==
  (dCmd # NoCmd /\ dCmd.type # "device.command") =>
    /\ dRes.ret = FALSE
    /\ dRes.invoked = <<>>
    /\ ~dRes.wrote
    /\ dRes.obs = NewObs

\* C12 witness: a document with no type that names a registered tool, which
\* would have succeeded, was dispatched
C12_Witness ==
  /\ dCmd.json /\ dCmd.type = ""
  /\ Registered(dCmd.tool)
  /\ dOut.ret

\* C14: a dispatch for a registered name invokes exactly one tool, the one with
\* the smallest registration index among those of that name; a same-named tool
\* registered later is not invoked.
C14_FirstMatchWins ==
  (dCmd.type = "device.command" /\ Registered(dCmd.tool)) =>
    /\ Len(dRes.invoked) = 1
    /\ tools[dRes.invoked[1]] = dCmd.tool
    /\ \A j \in 1..Len(tools) : tools[j] = dCmd.tool => dRes.invoked[1] <= j

\* C14 witness: "A" is registered first and third, and a dispatch for "A"
\* invoked the first
C14_Witness ==
  /\ tools = <<"A", "B", "A">>
  /\ dCmd.type = "device.command" /\ dCmd.tool = "A"
  /\ dRes.invoked = <<1>>

\* C16: on a name match the tool is invoked exactly once, the Observation is
\* what the tool's calls leave in a fresh builder plus the request id, and
\* dispatch returns what the tool returned, whatever the Observation's ok.
C16_PassThrough ==
  (dCmd.type = "device.command" /\ Registered(dCmd.tool)) =>
    /\ Len(dRes.invoked) = 1
    /\ dRes.wrote
    /\ dRes.ret = dOut.ret
    /\ [dRes.obs EXCEPT !.rid = ""] = ObRun(NewObs, dOut.calls)

\* C16 witness: the tool returned false after calling success(); dispatch
\* returned false with an Observation of ok=true
C16_Witness ==
  /\ dRes.invoked # <<>>
  /\ dOut.ret = FALSE /\ dRes.ret = FALSE
  /\ dRes.obs.ok = TRUE

\* C17: every Observation dispatch produces carries a non-empty request_id:
\* the command's when it has a non-empty one, a generated token otherwise, for
\* matched tools and for unsupported_tool errors alike.
C17_RequestCorrelation ==
  dRes.wrote =>
    /\ dRes.obs.rid # ""
    /\ dCmd.rid # "" => dRes.obs.rid = dCmd.rid
    /\ dCmd.rid = "" => dRes.obs.rid = GenRid

\* C17 witness: a command without request_id invoked a tool and the
\* Observation carries the generated token
C17_Witness ==
  /\ dCmd.type = "device.command" /\ dCmd.rid = ""
  /\ dRes.invoked # <<>>
  /\ dRes.obs.rid = GenRid

\* C18: initAll calls init of every registered tool once, in registration
\* order, whatever the earlier inits returned; it returns true iff all of them
\* did; it leaves the collection unchanged, so a later dispatch for a
\* registered name invokes that tool whether or not its init failed.
C18_InitAll ==
  /\ [](dInit.done =>
          /\ dInit.calls = [i \in 1..Len(tools) |-> i]
          /\ dInit.ret = (\A i \in 1..Len(tools) : dInit.res[i])
          /\ (dCmd.type = "device.command" /\ Registered(dCmd.tool)) =>
               /\ Len(dRes.invoked) = 1
               /\ tools[dRes.invoked[1]] = dCmd.tool)
  /\ [][(~dInit.done /\ dInit'.done) => tools' = tools]_vars

\* C18 witness: the first of two inits failed, both were called, initAll
\* returned false, and a later dispatch invoked the first tool
C18_Witness ==
  /\ dInit.done /\ ~dInit.ret
  /\ dInit.res = <<FALSE, TRUE>> /\ dInit.calls = <<1, 2>>
  /\ dRes.invoked = <<1>>

\* C11: a worker inside a tool invocation, however long it lasts, holds
\* neither the guard nor the wire; while it is there the control loop reaches
\* the port-sampling step and then the end of the iteration again and again
\* (after the transport loop, the periodic publishes and the reconnect that
\* were due), and every packet that arrived is taken by the receive path.
C11_FailureIsolation ==
  /\ [](pc[W] = "invoke" => (mutex # W /\ wire # W))
  /\ [](pc[W] = "invoke" => <>(phase = "tick"))
  /\ []((pc[W] = "invoke" /\ phase = "tick") => <>(LoopIdle /\ phase = "http"))
  /\ []((pc[W] = "invoke" /\ inbox.id # 0) => <>(inbox.id = 0))

\* C11 witness: with the worker inside an invocation the receive path has
\* applied a port-set message and enqueued a further command, and the control
\* loop is publishing the periodic status
C11_Witness ==
  /\ pc[W] = "invoke"
  /\ Len(queue) >= 1
  /\ Count("portset") >= 1 /\ inports[1].value = 1
  /\ pc[L] = "pub_w2" /\ HeadOp(L).topic = "status"

\* the Job in hand parsed but is not an invocation request
NonCommand ==
  job.id # 0 /\ job.body.json /\ job.body.type # "device.command"

\* C13: while the worker holds a Job that parsed but whose type is not
\* "device.command", no events packet is written for it, not even an empty one.
C13_NonCommandSilent ==
  NonCommand => (sent = 0 /\ wire # W)

\* C15: an Observation that dispatch serialized has an error object exactly
\* when its ok is false.
C15_ErrorIffNotOk ==
  evt.wrote => (evt.obs.err # "" <=> ~evt.obs.ok)

\* the Job in hand is an invocation request for a tool that is not registered
Unrouted ==
  /\ job.id # 0 /\ job.body.json /\ job.body.type = "device.command"
  /\ ~Registered(job.body.tool)

\* C19: with the link up, for a Job naming an unregistered tool the worker
\* invokes nothing, holds the Observation ok=false / "unsupported_tool" / the
\* command's request_id from dispatch on, writes at most one events packet,
\* and has written exactly one when it finishes the Job.
C19_UnsupportedReported ==
  /\ [](Unrouted =>
          /\ pc[W] # "invoke"
          /\ sent <= 1
          /\ pc[W] \notin {"parse", "dispatch"} =>
               /\ evt.invoked = <<>> /\ evt.wrote /\ ~evt.ret
               /\ evt.obs = [ok |-> FALSE, rid |-> job.body.rid, text |-> "",
                             err |-> "unsupported_tool", assets |-> <<>>])
  /\ [][(Unrouted /\ job'.id = 0) => sent = 1]_vars

\* C19 witness: the events packet for a Job naming an unregistered tool has
\* been written and the worker is about to finish the Job
C19_Witness ==
  /\ Unrouted
  /\ pc[W] = "run" /\ prog[W] = <<>>
  /\ sent = 1 /\ evt.obs.err = "unsupported_tool"

\* C20: the step that finds the payload unparsable takes the worker straight
\* back to xQueueReceive with no Job, nothing dispatched, nothing to publish
\* and nothing written, leaving guard, wire and queue as they were; and a
\* worker at xQueueReceive with a Job queued can always dequeue it.
C20_MalformedDiscarded ==
  /\ [][(pc[W] = "parse" /\ ~job.body.json /\ pc'[W] # "parse") =>
          /\ pc'[W] = "recv" /\ job' = None /\ active' = {}
          /\ prog'[W] = <<>> /\ evt' = NoEvt /\ sent' = 0
          /\ <<mutex, wire, garbled, queue>>' = <<mutex, wire, garbled, queue>>]_vars
  /\ []((pc[W] = "recv" /\ queue # <<>>) => ENABLED WorkerReceive)

\* C20 witness: the first Job was unparsable and has been discarded (nothing
\* was written for it); the worker is back at xQueueReceive and a parsable
\* command is waiting in the queue
C20_Witness ==
  /\ pc[W] = "recv" /\ deq = <<1>> /\ sent = 0
  /\ queue # <<>> /\ Head(queue).body.json

\* C28: after handleInPortSet(name, v) with a name no InPort has, the slots
\* (names, type tags, values, count) are the ones before the call, and no
\* publish is pending or on the wire.
C28_UnknownSetDropped ==
  (pOp.op = "set" /\ FindInPort(pOp.before, pOp.name) = 0)
    => /\ inports = pOp.before
       /\ InportCount(inports) = InportCount(pOp.before)
       /\ wire = "idle"
       /\ \A c \in Ctx : prog[c] = <<>>

C28_Witness ==
  /\ pOp.op = "set"
  /\ FindInPort(pOp.before, pOp.name) = 0
  /\ Len(pOp.before) >= 2
  /\ \E i \in 1..Len(inports) : inports[i].value # 0

\* C29: after handleInPortSet(name, v) with a name some InPort has, the
\* first-registered slot of that name holds v whatever its type tag, every
\* other slot (later slots of the same name included) is as before, and
\* reading the port by name returns v.
C29_SetOverwritesFirst ==
  (pOp.op = "set" /\ FindInPort(pOp.before, pOp.name) # 0)
    => LET hits == {i \in 1..Len(pOp.before) :
                      pOp.before[i].name = pOp.name}
           first == CHOOSE i \in hits : \A j \in hits : i <= j
       IN /\ Len(inports) = Len(pOp.before)
          /\ inports[first].value = pOp.value
          /\ inports[first].name = pOp.before[first].name
          /\ inports[first].dataType = pOp.before[first].dataType
          /\ \A i \in 1..Len(inports) :
                i # first => inports[i] = pOp.before[i]
          /\ PortGetInportValue(inports, pOp.name) = pOp.value

\* a set of a name held by two slots, the first a "bool" one, with a value
\* other than the one either slot had
C29_Witness ==
  /\ pOp.op = "set"
  /\ \E i, j \in 1..Len(pOp.before) :
        /\ i < j
        /\ pOp.before[i].name = pOp.name
        /\ pOp.before[j].name = pOp.name
        /\ pOp.before[i].dataType = "bool"
        /\ pOp.before[i].value # pOp.value
        /\ pOp.before[j].value # pOp.value
        /\ \A k \in 1..(i - 1) : pOp.before[k].name # pOp.name

\* C30: the number of slots is the number of createInPort calls made;
\* createInPort appends exactly one slot with value 0 whether or not the
\* name is already present and leaves the earlier slots as they were;
\* findInPort returns the earliest slot of a name and nothing for a name
\* never created.
C30_CreateAppends ==
  /\ InportCount(inports) = pOp.creates
  /\ pOp.op = "create"
       => /\ InportCount(inports) = InportCount(pOp.before) + 1
          /\ SubSeq(inports, 1, Len(pOp.before)) = pOp.before
          /\ inports[Len(inports)] =
               [name |-> pOp.name, dataType |-> pOp.dataType, value |-> 0]
  /\ \A n \in SetNames :
       LET f == FindInPort(inports, n)
       IN IF \E i \in 1..Len(inports) : inports[i].name = n
          THEN /\ f \in 1..Len(inports)
               /\ inports[f].name = n
               /\ \A j \in 1..(f - 1) : inports[j].name # n
          ELSE f = 0

\* a create of a name an earlier slot already has, that slot holding a
\* value that was set
C30_Witness ==
  /\ pOp.op = "create"
  /\ \E i \in 1..Len(pOp.before) :
        pOp.before[i].name = pOp.name /\ pOp.before[i].value # 0
  /\ InportCount(inports) = MaxPorts

\* the three publications of mqttConnect lines 243-245
ConnectSeq ==
  <<[topic |-> "announce", retain |-> TRUE, body |-> "doc"],
    [topic |-> "status", retain |-> FALSE, body |-> "online"],
    [topic |-> "ports/announce", retain |-> TRUE, body |-> "doc"]>>
BothSubs == <<"cmd", "ports/set">>
IsPrefix(a, b) == Len(a) <= Len(b) /\ SubSeq(b, 1, Len(a)) = a

\* C21: from a successful handshake to the end of the loop iteration that
\* made it, what the control loop has published is a prefix of <announce
\* retained, status online unretained, ports announce retained>; nothing is
\* published before both subscribes; and when mqttConnect has returned with
\* the link still up, both subscribes and all three publications were made.
C21_ConnectSequence ==
  connLog.open =>
    /\ IsPrefix(connLog.pubs, ConnectSeq)
    /\ connLog.pubs # <<>> => connLog.subs = BothSubs
    /\ (conn = "up" /\ pc["loop"] # "conn_sub") => connLog.subs = BothSubs
    /\ (conn = "up" /\ LoopIdle) => connLog.pubs = ConnectSeq

\* mqttConnect has returned after a handshake with everything published,
\* while the worker wrote an events packet of its own
C21_Witness ==
  /\ connLog.open /\ conn = "up" /\ LoopIdle
  /\ connLog.pubs = ConnectSeq
  /\ connLog.subs = BothSubs
  /\ sent >= 1

\* C22: the will the broker holds for an open session is <status topic,
\* online=false, retained>; once the broker has found the link gone without
\* a DISCONNECT it retains a status with online=false; no status with
\* online=false was ever published by the device, nor is one pending.
C22_LastWill ==
  /\ broker.session = "open" =>
       broker.will = [topic |-> "status", body |-> "offline", retain |-> TRUE]
  /\ broker.session = "lost" => broker.retained["status"] = "offline"
  /\ ~broker.devOffline
  /\ \A c \in Ctx : \A i \in 1..Len(prog[c]) : prog[c][i].body # "offline"

\* the link was lost and the device has not noticed yet
C22_Witness ==
  /\ Running /\ conn = "lost"
  /\ broker.session = "lost"
  /\ broker.retained["status"] = "offline"
  /\ broker.retained["announce"] = "doc"

\* C27: the disconnect of /factory_reset is made holding the guard; when
\* the device has restarted into provisioning after a factory reset whose
\* DISCONNECT reached the broker (the link was up throughout and no packet
\* was cut by another writer), the broker retains nothing on the announce,
\* status and ports/announce topics and holds no will.
C27_FactoryResetClears ==
  /\ (pc["loop"] = "disc_do" /\ mutexCreated) => mutex = "loop"
  /\ (mode = "provision" /\ broker.session = "closed" /\ ~garbled)
       => /\ \A t \in RetainedTopics : broker.retained[t] = ""
          /\ broker.will = NoWill

C27_Witness ==
  /\ mode = "provision" /\ broker.session = "closed" /\ ~garbled
  /\ \A t \in RetainedTopics : broker.retained[t] = ""

\* C26: in runtime mode some task can always take a step; whenever the
\* transport is not connected the control loop eventually calls
\* mqtt.connect again; with a fair broker the transport eventually is
\* connected again; and after every handshake the announce, the status and
\* the ports announce are published again unless the link is lost first.
C26_NeverGivesUp ==
  /\ [](Running /\ ENABLED (LoopRun0 \/ WorkerJob))
  /\ [](conn # "up" => <>(pc["loop"] = "conn_do"))
  /\ [](conn # "up" => <>(conn = "up"))
  /\ [](pc["loop"] = "conn_sub"
         => <>(conn # "up" \/ (connLog.open /\ connLog.pubs = ConnectSeq)))

\* a session opened again after the broker had published the will, with the
\* three publications made again
C26_Witness ==
  /\ Running /\ conn = "up"
  /\ broker.session = "open"
  /\ broker.retained["status"] = "offline"
  /\ connLog.open /\ connLog.pubs = ConnectSeq

\* C23: when loop() makes the periodic status publish, at least
\* STATUS_PUBLISH_INTERVAL has elapsed since the last successful status
\* publish, whichever call made it.
C23_StatusPeriod ==
  tm.ev.kind = "periodic" => tm.gapOk >= StatusInterval

\* C24: when loop() calls mqttConnect after a failed attempt, at least
\* MQTT_RECONNECT_INTERVAL has elapsed since that attempt, the one made by
\* startRuntime included.
C24_ConnectBackoff ==
  (tm.ev.kind = "attempt" /\ tm.ev.prevFailed)
    => tm.ev.gap >= ReconnectInterval

\* C25: when loop() makes the periodic status publish after a periodic
\* status publish that failed, no status having been published successfully
\* within the last interval, at least STATUS_PUBLISH_INTERVAL has elapsed
\* since the failed one.
C25_PublishBackoff ==
  (tm.ev.kind = "periodic" /\ tm.ev.prevFailed /\ tm.gapOk >= StatusInterval)
    => tm.ev.gap >= StatusInterval

(***************************************************************************)
(* C31: tickAll(now) calls tick of every registered non-null OutPort       *)
(* exactly once, in registration order and with the same now; it skips no  *)
(* port for its period and changes no InPort.                              *)
(***************************************************************************)
NonNull(outs) == SelectSeq(outs, LAMBDA p : p # "null")

C32_AnnounceIdempotent ==
  /\ (pOp.op = "announcePorts" /\ pOp.prev.type # "none")
       => /\ pOp.lastPorts.outports = pOp.prev.outports
          /\ pOp.lastPorts.inports = pOp.prev.inports
  /\ (pOp.op = "announceTools" /\ pOp.prev.type # "none")
       => pOp.lastTools.tools = pOp.prev.tools
  /\ pOp.op = "announcePorts"
       => /\ pOp.lastPorts.outports
               = [k \in 1..Len(NonNull(outports)) |->
                    [name |-> NonNull(outports)[k], type |-> "outport"]]
          /\ Len(pOp.lastPorts.inports) = Len(inports)
          /\ \A k \in 1..Len(inports) :
               pOp.lastPorts.inports[k].name = inports[k].name
  /\ pOp.op = "announceTools"
       => /\ Len(pOp.lastTools.tools) = Len(tools)
          /\ \A k \in 1..Len(tools) : pOp.lastTools.tools[k].name = tools[k]
  /\ pOp.op \in {"announcePorts", "announceTools"} => inports = pOp.before

\* a second ports announce, built at another time and after a port-set
\* message changed an InPort
C32_Witness ==
  /\ pOp.op = "announcePorts"
  /\ pOp.prev.type # "none"
  /\ pOp.prev.timestamp # pOp.lastPorts.timestamp
  /\ Len(pOp.lastPorts.outports) = 2
  /\ Len(outports) = 3
  /\ inports[1].value # 0
  /\ pOp.lastTools.type # "none"
  /\ Len(tools) = 2

(***************************************************************************)
(* C33: the Observation published has http_base put before every asset    *)
(* url that begins with '/', every other asset unchanged, and the number   *)
(* and order of assets and all other fields unchanged, on the worker path  *)
(* and on the emitter path, whenever the Observation is published.         *)
(***************************************************************************)
C33_AssetUrlPatch ==
  (pa.path # "none" /\ pa.published)
    => /\ Len(pa.out.assets) = Len(pa.in.assets)
       /\ \A i \in 1..Len(pa.in.assets) :
            LET a == pa.in.assets[i]
                b == pa.out.assets[i]
            IN /\ b.kind = a.kind
               /\ b.hasUrl = a.hasUrl
               /\ IF a.hasUrl /\ a.url # <<>> /\ Head(a.url) = "/"
                  THEN b.url = pa.base \o a.url
                  ELSE b.url = a.url
       /\ pa.out.ok = pa.in.ok
       /\ pa.out.rid = pa.in.rid

(***************************************************************************)
(* C34: the receive callback classifies a packet by its exact topic.  A    *)
(* port-set record is applied to the Port registry before the callback     *)
(* returns and is never enqueued; a command is only copied into the Job    *)
(* queue (nothing is parsed, invoked or published in the callback); a      *)
(* packet on any other topic changes nothing.                              *)
(***************************************************************************)
PortSetMarks == {"badset", "noport", "portmiss", "portset", "portset0"}
CallbackReturns ==
  pc[L] = "cb" /\ cbMsg.id # 0 /\ cbMsg'.id = 0 /\ pc'[L] = "loop_give"

C34_IngressByTopic ==
  [][CallbackReturns =>
       /\ UNCHANGED <<evt, job, sent, deq, active, wire, prog, conn, mutex,
                      tools, outports>>
       /\ cbMsg.topic = "ports/set"
            => /\ queue' = queue
               /\ rx'[cbMsg.id] \in PortSetMarks
               /\ (cbMsg.body.json /\ cbMsg.body.hasValue
                      /\ FindInPort(inports, cbMsg.body.port) # 0)
                    => PortGetInportValue(inports', cbMsg.body.port)
                         = cbMsg.body.value
       /\ cbMsg.topic = "cmd"
            => /\ inports' = inports
               /\ \/ queue' = queue /\ rx'[cbMsg.id] # "enq"
                  \/ /\ queue' = Append(queue, [id |-> cbMsg.id,
                                                  len |-> cbMsg.len,
                                                  body |-> cbMsg.body])
                     /\ rx'[cbMsg.id] = "enq"
       /\ cbMsg.topic \notin {"ports/set", "cmd"}
            => /\ queue' = queue
               /\ inports' = inports
               /\ rx'[cbMsg.id] = "ignored"]_vars

\* one packet of each kind has been through the callback, and the port-set
\* record was applied
C34_Witness ==
  /\ Count("portset") >= 1 /\ Count("enq") >= 1 /\ Count("ignored") >= 1
  /\ inports[1].value = 1
  /\ cbMsg.id = 0

(***************************************************************************)
(* C39: a port-set record that does not parse or has no "port" member      *)
(* leaves every InPort unchanged; a record naming an existing port without *)
(* a "value" member sets that port to 0.                                   *)
(***************************************************************************)
C39_PortSetValidation ==
  [][(CallbackReturns /\ cbMsg.topic = "ports/set") =>
       /\ (~cbMsg.body.json \/ cbMsg.body.port = "") => inports' = inports
       /\ (cbMsg.body.json /\ ~cbMsg.body.hasValue
              /\ FindInPort(inports, cbMsg.body.port) # 0)
            => /\ PortGetInportValue(inports', cbMsg.body.port) = 0
               /\ Len(inports') = Len(inports)]_vars

\* a record without a value member has reset a port that held 1
C39_Witness ==
  /\ Len(rx) = 3
  /\ rx[1] = "portset" /\ rx[2] = "portset0" /\ rx[3] \in {"badset", "noport"}
  /\ inports[1].name = "var_a"
  /\ inports[1].value = 0

(***************************************************************************)
(* C35: the registries are append-only and filled at startup.  No step of  *)
(* the running firmware changes the membership or order of the tools, the  *)
(* OutPorts or the InPorts; an InPort value changes only in the callback   *)
(* step that handles a port-set packet (a restart registers the same       *)
(* entries again, with the values 0).                                      *)
(***************************************************************************)
Restarts == rx' = <<>> /\ queue' = <<>> /\ cbMsg'.id = 0 /\ inports' = RunInPorts

C35_RegistriesFixed ==
  [][/\ tools' = tools
     /\ outports' = outports
     /\ Len(inports') = Len(inports)
     /\ \A i \in 1..Len(inports) :
          /\ inports'[i].name = inports[i].name
          /\ inports'[i].dataType = inports[i].dataType
     /\ inports' # inports
          => \/ CallbackReturns /\ cbMsg.topic = "ports/set"
             \/ Restarts]_vars

\* a port-set record changed a value, another named no slot, and the worker
\* has handled a command
C35_Witness ==
  /\ Count("portset") >= 1 /\ Count("portmiss") >= 1
  /\ Len(deq) >= 1 /\ active = {}
  /\ inports = <<[name |-> "var_a", dataType |-> "float", value |-> 1]>>
  /\ tools = RunTools
  /\ outports = RunOutPorts

(***************************************************************************)
(* C37: whenever the device is Connected and mqttConnect has made its      *)
(* subscriptions and its three publications, the status message the broker *)
(* retains for the device does not say online=false.                       *)
(***************************************************************************)
C37_RetainedStatusOnline ==
  (/\ conn = "up" /\ broker.session = "open"
   /\ connLog.open /\ connLog.subs = BothSubs /\ connLog.pubs = ConnectSeq)
    => broker.retained["status"] # "offline"

(***************************************************************************)
(* C38: two distinct commands that carry no request_id are given different *)
(* generated request ids, also when no millisecond passes between their    *)
(* dispatches.                                                             *)
(***************************************************************************)
C38_FreshRequestIds ==
  (rd.prev # -1 /\ rd.cur # -1) => rd.cur # rd.prev

EvInvoked == ev.at = "mqtt" /\ ev'.at = "tick" /\ ev'.res # ev.res

\* invoke routes by op: subscribe and unsubscribe reach their hook only, a
\* missing op is bad_request, another op is bad_op, and the two errors
\* leave the subscription as it was
EventInvokeRouting ==
  [][EvInvoked =>
       /\ ev'.res \in {"subscribed", "unsubscribed", "bad_request", "bad_op"}
       /\ ev'.res = "subscribed" => ev'.active
       /\ ev'.res = "unsubscribed" => ~ev'.active
       /\ ev'.res \in {"bad_request", "bad_op"} =>
            /\ ev'.active = ev.active
            /\ ev'.interval_ms = ev.interval_ms
            /\ ev'.last_emit_ms = ev.last_emit_ms]_vars

EvEmits == ev.at = "tick" /\ ev'.at = "top" /\ ev'.res = "emit"

(***************************************************************************)
(* C40: tick emits an event only while the tool is subscribed and only     *)
(* when at least interval_ms has elapsed since the last emission or the    *)
(* subscribe.                                                              *)
(***************************************************************************)
C40_EventSubscription ==
  [][EvEmits => (ev.active /\ ev.el >= ev.interval_ms)]_vars

Queued(i)   == \E k \in 1..Len(queue) : queue[k].id = i
Dequeued(i) == \E k \in 1..Len(deq) : deq[k] = i

\* the worker calls mqttPublishSafe
PublishAttempt == AtOp(W, "pub") /\ (pc'[W] = "pub_take" \/ prog'[W] # prog[W])

\* each publish attempt of the worker is the only one of its Job, is made on
\* the events topic for a Job the worker parsed, and when the transport is
\* not connected it ends the Job's publishing with nothing taken or written
OneAttempt ==
  PublishAttempt =>
    /\ job.id # 0 /\ job.body.json
    /\ prog[W] = <<Pub("events", FALSE, job.id)>>
    /\ sent = 0
    /\ ~IsConnected =>
         (prog'[W] = <<>> /\ pc'[W] = "run" /\ sent' = 0
          /\ mutex' = mutex /\ wire' = wire /\ queue' = queue)

\* a Job that parses as a device.command is not finished without its
\* publish attempt
AttemptBeforeDone ==
  (job.id # 0 /\ job.body.json /\ IsCommand(job.body) /\ job'.id = 0)
    => (pc[W] = "run" /\ prog[W] = <<>>)

====
